---- MODULE Spec2Model ----
(***************************************************************************)
(* Verification model of the Minecraft 1.15.2 (protocol 578) codec in      *)
(* src/src/v1_15_2.rs: the packet registry declared with define_protocol!, *)
(* the counted-array conversions, the tagged unions and bit-flag sets, and *)
(* the hand-written composite codecs (command graph nodes, lighting        *)
(* updates, ...).                                                          *)
(*                                                                         *)
(* Encoders are operators from a value to a sequence of bytes; decoders    *)
(* are operators from a sequence of bytes to a result that is either       *)
(* Ok(value, remaining bytes), Err(reason) or Panic(message).  Every       *)
(* operation is a pure transform, so an action draws an input from a       *)
(* bounded set, applies the operation and records what it was applied to   *)
(* (arg) and what it produced (res).  The codec keeps no state between     *)
(* calls, so every call starts from the initial state.                     *)
(***************************************************************************)
EXTENDS Integers, Sequences, FiniteSets, TLC

VARIABLES
  op,   \* the operation that produced the current state ("init" at start)
  arg,  \* the input the operation was applied to
  res   \* what the operation returned

vars == <<op, arg, res>>

(***************************************************************************)
(* Bounds of the model.                                                    *)
(***************************************************************************)
\* largest number of entity metadata entries in the input of a decode, and
\* of set calls that build an EntityMetadata
MaxFields == 2

\* largest number of bytes cut from the end of an encoding
MaxCut == 3

\* largest numeric packet id presented to the decode-path registry lookup
MaxPacketId == 95

\* largest number of elements of a counted array that is serialized
MaxArrayLen == 130

\* largest number of child indices of a command graph node, and of elements
\* of a counted array inside a packet body
MaxChildren == 2

\* largest number of sky-light sections present in a lighting update
MaxLitSections == 1

\* largest number of body values of one packet that are serialized
MaxPacketValues == 48

\* largest number of trades in a trade list
MaxTrades == 128

\* largest numeric discriminant presented to a varint or int tagged union,
\* and largest integer whose float is presented to GameChangeReason
MaxDiscriminant == 105

(***************************************************************************)
(* Results of a decode: DeserializeResult<'_, T> = Result<Deserialized<T>, *)
(* DeserializeErr>, or a panic that unwinds through the caller.            *)
(***************************************************************************)
Ok(v, d) == [kind |-> "ok", value |-> v, data |-> d]

Err(e) == [kind |-> "err", err |-> e]

Panic(m) == [kind |-> "panic", err |-> m]

IsOk(r) == r.kind = "ok"

Byte == 0..255

\* Option<T>
None == [some |-> FALSE]

Some(v) == [some |-> TRUE, value |-> v]

\* the concatenation of a sequence of sequences
RECURSIVE Flatten(_)
Flatten(ss) == IF Len(ss) = 0 THEN <<>> ELSE Head(ss) \o Flatten(Tail(ss))

(***************************************************************************)
(* Arithmetic on machine integers.  TLC integers are 32-bit, so unsigned   *)
(* 32-bit patterns are never formed: shifts are expressed on the signed    *)
(* value.                                                                  *)
(***************************************************************************)
RECURSIVE Pow2(_)
Pow2(n) == IF n = 0 THEN 1 ELSE 2 * Pow2(n - 1)

\* bit i (0 = least significant) of the two's-complement pattern of v
Bit(v, i) == (v \div Pow2(i)) % 2

\* a & b on the low n bits
RECURSIVE BitAnd(_, _, _)
BitAnd(a, b, n) ==
  IF n = 0 THEN 0
  ELSE (a % 2) * (b % 2) + 2 * BitAnd(a \div 2, b \div 2, n - 1)

\* a | b on the low n bits
RECURSIVE BitOr(_, _, _)
BitOr(a, b, n) ==
  IF n = 0 THEN 0
  ELSE (IF a % 2 = 1 \/ b % 2 = 1 THEN 1 ELSE 0) + 2 * BitOr(a \div 2, b \div 2, n - 1)

\* (v as u32) >> 7 for an i32 v, as a non-negative integer below 2^25
Lsr7(v) == (v \div 128) + (IF v < 0 THEN 33554432 ELSE 0)

(***************************************************************************)
(* Primitive wire types.                                                   *)
(***************************************************************************)
u8_serialize(b) == <<b>>

u8_deserialize(data) ==
  IF data = <<>> THEN Err("Eof") ELSE Ok(Head(data), Tail(data))

\* i8 on the wire is the byte of its two's-complement pattern
i8_serialize(v) == <<v % 256>>

i8_deserialize(data) ==
  IF data = <<>> THEN Err("Eof")
  ELSE Ok(IF Head(data) >= 128 THEN Head(data) - 256 ELSE Head(data), Tail(data))

bool_serialize(b) == <<IF b THEN 1 ELSE 0>>

bool_deserialize(data) ==
  IF data = <<>> THEN Err("Eof")
  ELSE IF Head(data) = 0 THEN Ok(FALSE, Tail(data))
  ELSE IF Head(data) = 1 THEN Ok(TRUE, Tail(data))
  ELSE Err("InvalidBool")

\* big-endian u16
u16_serialize(v) == <<v \div 256, v % 256>>

u16_deserialize(data) ==
  IF Len(data) < 2 THEN Err("Eof")
  ELSE Ok(data[1] * 256 + data[2], SubSeq(data, 3, Len(data)))

\* big-endian i32
i32_serialize(v) ==
  <<(v \div 16777216) % 256, (v \div 65536) % 256, (v \div 256) % 256, v % 256>>

i32_deserialize(data) ==
  IF Len(data) < 4 THEN Err("Eof")
  ELSE LET hi == IF data[1] >= 128 THEN data[1] - 256 ELSE data[1]
       IN Ok(hi * 16777216 + data[2] * 65536 + data[3] * 256 + data[4],
             SubSeq(data, 5, Len(data)))

\* f32 is carried as its four big-endian bytes (the IEEE-754 bit pattern)
f32_serialize(bits) == bits

f32_deserialize(data) ==
  IF Len(data) < 4 THEN Err("Eof")
  ELSE Ok(SubSeq(data, 1, 4), SubSeq(data, 5, Len(data)))

\* f64 is carried as its eight big-endian bytes
f64_serialize(bits) == bits

f64_deserialize(data) ==
  IF Len(data) < 8 THEN Err("Eof")
  ELSE Ok(SubSeq(data, 1, 8), SubSeq(data, 9, Len(data)))

\* VarInt: at most 5 bytes
VARINT_MAX_BYTES == 5

VarInt_serializeFiveBytes(v) ==
  <<(v % 128) + 128, (Lsr7(v) % 128) + 128, (Lsr7(Lsr7(v)) % 128) + 128,
    (Lsr7(Lsr7(Lsr7(v))) % 128) + 128, Lsr7(Lsr7(Lsr7(Lsr7(v))))>>

\* VarInt encode: 7 bits at a time of the unsigned bit pattern, least
\* significant group first, continuation bit on all but the last byte
RECURSIVE VarInt_serialize(_)
VarInt_serialize(v) ==
  IF Lsr7(v) = 0 THEN <<v % 128>>
  ELSE <<(v % 128) + 128>> \o VarInt_serialize(Lsr7(v))

\* the i32 assembled from up to five 7-bit groups; bits above bit 31 of the
\* fifth group fall off
VarIntFromGroups(g) ==
  LET G(k) == IF k <= Len(g) THEN g[k] ELSE 0
      low == G(1) + 128 * G(2) + 16384 * G(3) + 2097152 * G(4)
      top == G(5) % 16
  IN IF top >= 8 THEN (top - 16) * 268435456 + low ELSE top * 268435456 + low

RECURSIVE VarIntReadLoop(_, _)
VarIntReadLoop(data, groups) ==
  IF Len(groups) = VARINT_MAX_BYTES THEN Err("VarNumTooLong")
  ELSE IF data = <<>> THEN Err("Eof")
  ELSE LET b == Head(data)
           g == Append(groups, b % 128)
       IN IF b >= 128 THEN VarIntReadLoop(Tail(data), g)
          ELSE Ok(VarIntFromGroups(g), Tail(data))

VarInt_deserialize(data) == VarIntReadLoop(data, <<>>)

\* String: VarInt byte length, then the UTF-8 bytes.  Strings are modelled
\* as their sequence of bytes; the model only forms strings over ASCII and
\* the byte 0xFF, for which "every byte below 0x80" is exactly UTF-8 validity
Utf8Valid(bytes) == \A i \in 1..Len(bytes) : bytes[i] < 128

String_serialize(s) == VarInt_serialize(Len(s)) \o s

String_deserialize(data) ==
  LET n == VarInt_deserialize(data)
  IN IF ~IsOk(n) THEN n
     ELSE IF n.value < 0 \/ Len(n.data) < n.value THEN Err("Eof")
     ELSE IF ~Utf8Valid(SubSeq(n.data, 1, n.value)) THEN Err("BadStringEncoding")
     ELSE Ok(SubSeq(n.data, 1, n.value), SubSeq(n.data, n.value + 1, Len(n.data)))

(***************************************************************************)
(* The packet registry: define_protocol!(Packet578, ...).  One entry per   *)
(* packet in declaration order: variant name, numeric id, state, direction,*)
(* body struct and the body's fields (name, type) in declaration order.    *)
(***************************************************************************)
Registry ==
  <<
    [name |-> "Handshake", id |-> 0, state |-> "Handshaking", direction |-> "ServerBound", body |-> "HandshakeSpec",
     fields |-> <<<<"version", "VarInt">>, <<"server_address", "String">>, <<"server_port", "u16">>, <<"next_state", "HandshakeNextState">>>>],
    [name |-> "StatusRequest", id |-> 0, state |-> "Status", direction |-> "ServerBound", body |-> "StatusRequestSpec",
     fields |-> <<>>],
    [name |-> "StatusPing", id |-> 1, state |-> "Status", direction |-> "ServerBound", body |-> "StatusPingSpec",
     fields |-> <<<<"payload", "i64">>>>],
    [name |-> "StatusResponse", id |-> 0, state |-> "Status", direction |-> "ClientBound", body |-> "StatusResponseSpec",
     fields |-> <<<<"response", "super::status::StatusSpec">>>>],
    [name |-> "StatusPong", id |-> 1, state |-> "Status", direction |-> "ClientBound", body |-> "StatusPongSpec",
     fields |-> <<<<"payload", "i64">>>>],
    [name |-> "LoginDisconnect", id |-> 0, state |-> "Login", direction |-> "ClientBound", body |-> "LoginDisconnectSpec",
     fields |-> <<<<"message", "Chat">>>>],
    [name |-> "LoginEncryptionRequest", id |-> 1, state |-> "Login", direction |-> "ClientBound", body |-> "LoginEncryptionRequestSpec",
     fields |-> <<<<"server_id", "String">>, <<"public_key", "VarIntCountedArray<u8>">>, <<"verify_token", "VarIntCountedArray<u8>">>>>],
    [name |-> "LoginSuccess", id |-> 2, state |-> "Login", direction |-> "ClientBound", body |-> "LoginSuccessSpec",
     fields |-> <<<<"uuid_string", "String">>, <<"username", "String">>>>],
    [name |-> "LoginSetCompression", id |-> 3, state |-> "Login", direction |-> "ClientBound", body |-> "LoginSetCompressionSpec",
     fields |-> <<<<"threshold", "VarInt">>>>],
    [name |-> "LoginPluginRequest", id |-> 4, state |-> "Login", direction |-> "ClientBound", body |-> "LoginPluginRequestSpec",
     fields |-> <<<<"message_id", "VarInt">>, <<"channel", "String">>, <<"data", "RemainingBytes">>>>],
    [name |-> "LoginStart", id |-> 0, state |-> "Login", direction |-> "ServerBound", body |-> "LoginStartSpec",
     fields |-> <<<<"name", "String">>>>],
    [name |-> "LoginEncryptionResponse", id |-> 1, state |-> "Login", direction |-> "ServerBound", body |-> "LoginEncryptionResponseSpec",
     fields |-> <<<<"shared_secret", "VarIntCountedArray<u8>">>, <<"verify_token", "VarIntCountedArray<u8>">>>>],
    [name |-> "LoginPluginResponse", id |-> 2, state |-> "Login", direction |-> "ServerBound", body |-> "LoginPluginResponseSpec",
     fields |-> <<<<"message_id", "VarInt">>, <<"successful", "bool">>, <<"data", "RemainingBytes">>>>],
    [name |-> "PlaySpawnEntity", id |-> 0, state |-> "Play", direction |-> "ClientBound", body |-> "PlaySpawnEntitySpec",
     fields |-> <<<<"entity_id", "VarInt">>, <<"object_uuid", "UUID4">>, <<"entity_type", "VarInt">>, <<"x", "f64">>, <<"y", "f64">>, <<"z", "f64">>, <<"pitch", "Angle">>, <<"yaw", "Angle">>, <<"data", "i32">>, <<"velocity_x", "i16">>, <<"velocity_y", "i16">>, <<"velocity_z", "i16">>>>],
    [name |-> "PlaySpawnExperienceOrb", id |-> 1, state |-> "Play", direction |-> "ClientBound", body |-> "PlaySpawnExperienceOrbSpec",
     fields |-> <<<<"entity_id", "VarInt">>, <<"x", "f64">>, <<"y", "f64">>, <<"z", "f64">>, <<"count", "i16">>>>],
    [name |-> "PlaySpawnWeatherEntity", id |-> 2, state |-> "Play", direction |-> "ClientBound", body |-> "PlaySpawnWeatherEntitySpec",
     fields |-> <<<<"entity_id", "VarInt">>, <<"entity_type", "u8">>, <<"x", "f64">>, <<"y", "f64">>, <<"z", "f64">>>>],
    [name |-> "PlaySpawnLivingEntity", id |-> 3, state |-> "Play", direction |-> "ClientBound", body |-> "PlaySpawnLivingEntitySpec",
     fields |-> <<<<"entity_id", "VarInt">>, <<"entity_uuid", "UUID4">>, <<"entity_type", "VarInt">>, <<"x", "f64">>, <<"y", "f64">>, <<"z", "f64">>, <<"yaw", "Angle">>, <<"pitch", "Angle">>, <<"head_pitch", "Angle">>, <<"velocity_x", "i16">>, <<"velocity_y", "i16">>, <<"velocity_z", "i16">>>>],
    [name |-> "PlaySpawnPainting", id |-> 4, state |-> "Play", direction |-> "ClientBound", body |-> "PlaySpawnPaintingSpec",
     fields |-> <<<<"entity_id", "VarInt">>, <<"entity_uuid", "UUID4">>, <<"motive", "VarInt">>, <<"location", "IntPosition">>, <<"direction", "CardinalDirection">>>>],
    [name |-> "PlaySpawnPlayer", id |-> 5, state |-> "Play", direction |-> "ClientBound", body |-> "PlaySpawnPlayerSpec",
     fields |-> <<<<"entity_id", "VarInt">>, <<"uuid", "UUID4">>, <<"x", "f64">>, <<"y", "f64">>, <<"z", "f64">>, <<"yaw", "Angle">>, <<"pitch", "Angle">>>>],
    [name |-> "PlayEntityAnimation", id |-> 6, state |-> "Play", direction |-> "ClientBound", body |-> "PlayEntityAnimationSpec",
     fields |-> <<<<"entity_id", "VarInt">>, <<"animation", "EntityAnimationKind">>>>],
    [name |-> "PlayStatistics", id |-> 7, state |-> "Play", direction |-> "ClientBound", body |-> "PlayStatisticsSpec",
     fields |-> <<<<"entries", "VarIntCountedArray<Statistic>">>>>],
    [name |-> "PlayAcknowledgePlayerDigging", id |-> 8, state |-> "Play", direction |-> "ClientBound", body |-> "PlayAcknowledgePlayerDiggingSpec",
     fields |-> <<<<"location", "IntPosition">>, <<"block", "VarInt">>, <<"status", "DiggingStatus">>, <<"successful", "bool">>>>],
    [name |-> "PlayBlockBreakAnimation", id |-> 9, state |-> "Play", direction |-> "ClientBound", body |-> "PlayBlockBreakAnimationSpec",
     fields |-> <<<<"entity_id", "VarInt">>, <<"location", "IntPosition">>, <<"destroy_stage", "i8">>>>],
    [name |-> "PlayBlockEntityData", id |-> 10, state |-> "Play", direction |-> "ClientBound", body |-> "PlayBlockEntityDataSpec",
     fields |-> <<<<"location", "IntPosition">>, <<"action", "BlockEntityDataAction">>, <<"nbt_data", "NamedNbtTag">>>>],
    [name |-> "PlayBlockAction", id |-> 11, state |-> "Play", direction |-> "ClientBound", body |-> "PlayBlockActionSpec",
     fields |-> <<<<"location", "IntPosition">>, <<"action_id", "u8">>, <<"action_payload", "u8">>, <<"block_type", "VarInt">>>>],
    [name |-> "PlayBlockChange", id |-> 12, state |-> "Play", direction |-> "ClientBound", body |-> "PlayBlockChangeSpec",
     fields |-> <<<<"location", "IntPosition">>, <<"block_id", "VarInt">>>>],
    [name |-> "PlayBossBar", id |-> 13, state |-> "Play", direction |-> "ClientBound", body |-> "PlayBossBarSpec",
     fields |-> <<<<"uuid", "UUID4">>, <<"action", "BossBarAction">>>>],
    [name |-> "PlayServerDifficulty", id |-> 14, state |-> "Play", direction |-> "ClientBound", body |-> "PlayServerDifficultySpec",
     fields |-> <<<<"difficulty", "Difficulty">>, <<"locked", "bool">>>>],
    [name |-> "PlayServerChatMessage", id |-> 15, state |-> "Play", direction |-> "ClientBound", body |-> "PlayServerChatMessageSpec",
     fields |-> <<<<"message", "Chat">>, <<"position", "ChatPosition">>>>],
    [name |-> "PlayMultiBlockChange", id |-> 16, state |-> "Play", direction |-> "ClientBound", body |-> "PlayMultiBlockChangeSpec",
     fields |-> <<<<"chunk_x", "i32">>, <<"chunk_z", "i32">>, <<"changes", "VarIntCountedArray<MultiBlockChangeRecord>">>>>],
    [name |-> "PlayTabComplete", id |-> 17, state |-> "Play", direction |-> "ClientBound", body |-> "PlayTabCompleteSpec",
     fields |-> <<<<"id", "VarInt">>, <<"start", "VarInt">>, <<"length", "VarInt">>, <<"matches", "VarIntCountedArray<TabCompleteMatch>">>>>],
    [name |-> "PlayDeclareCommands", id |-> 18, state |-> "Play", direction |-> "ClientBound", body |-> "PlayDeclareCommandsSpec",
     fields |-> <<<<"nodes", "VarIntCountedArray<CommandNodeSpec>">>, <<"root_index", "VarInt">>>>],
    [name |-> "PlayServerWindowConfirmation", id |-> 19, state |-> "Play", direction |-> "ClientBound", body |-> "PlayServerWindowConfirmationSpec",
     fields |-> <<<<"window_id", "u8">>, <<"action_number", "i16">>, <<"accepted", "bool">>>>],
    [name |-> "PlayServerCloseWindow", id |-> 20, state |-> "Play", direction |-> "ClientBound", body |-> "PlayServerCloseWindowSpec",
     fields |-> <<<<"window_id", "u8">>>>],
    [name |-> "PlayWindowItems", id |-> 21, state |-> "Play", direction |-> "ClientBound", body |-> "PlayWindowItemsSpec",
     fields |-> <<<<"window_id", "u8">>, <<"slots", "ShortCountedArray<Option<Slot>>">>>>],
    [name |-> "PlayWindowProperty", id |-> 22, state |-> "Play", direction |-> "ClientBound", body |-> "PlayWindowPropertySpec",
     fields |-> <<<<"window_id", "u8">>, <<"property", "i16">>, <<"value", "i16">>>>],
    [name |-> "PlaySetSlot", id |-> 23, state |-> "Play", direction |-> "ClientBound", body |-> "PlaySetSlotSpec",
     fields |-> <<<<"window_id", "u8">>, <<"slow", "i16">>, <<"slot_data", "Option<Slot>">>>>],
    [name |-> "PlaySetCooldown", id |-> 24, state |-> "Play", direction |-> "ClientBound", body |-> "PlaySetCooldownSpec",
     fields |-> <<<<"item_id", "VarInt">>, <<"cooldown_ticks", "VarInt">>>>],
    [name |-> "PlayServerPluginMessage", id |-> 25, state |-> "Play", direction |-> "ClientBound", body |-> "PlayServerPluginMessageSpec",
     fields |-> <<<<"channel", "String">>, <<"data", "RemainingBytes">>>>],
    [name |-> "PlayNamedSoundEffect", id |-> 26, state |-> "Play", direction |-> "ClientBound", body |-> "PlayNamedSoundEffectSpec",
     fields |-> <<<<"sound_name", "String">>, <<"sound_category", "SoundCategory">>, <<"position_x", "FixedInt">>, <<"position_y", "FixedInt">>, <<"position_z", "FixedInt">>, <<"volume", "f32">>, <<"pitch", "f32">>>>],
    [name |-> "PlayDisconnect", id |-> 27, state |-> "Play", direction |-> "ClientBound", body |-> "PlayDisconnectSpec",
     fields |-> <<<<"reason", "Chat">>>>],
    [name |-> "PlayEntityStatus", id |-> 28, state |-> "Play", direction |-> "ClientBound", body |-> "PlayEntityStatusSpec",
     fields |-> <<<<"entity_id", "i32">>, <<"raw_status", "u8">>>>],
    [name |-> "PlayExplosion", id |-> 29, state |-> "Play", direction |-> "ClientBound", body |-> "PlayExplosionSpec",
     fields |-> <<<<"x", "f32">>, <<"y", "f32">>, <<"z", "f32">>, <<"strength", "f32">>, <<"records", "IntCountedArray<ExplosionRecord>">>, <<"player_motion_x", "f32">>, <<"player_motion_y", "f32">>, <<"player_motion_z", "f32">>>>],
    [name |-> "PlayUnloadChunk", id |-> 30, state |-> "Play", direction |-> "ClientBound", body |-> "PlayUnloadChunkSpec",
     fields |-> <<<<"x", "i32">>, <<"y", "i32">>>>],
    [name |-> "PlayChangeGameState", id |-> 31, state |-> "Play", direction |-> "ClientBound", body |-> "PlayChangeGameStateSpec",
     fields |-> <<<<"reason", "GameChangeReason">>>>],
    [name |-> "PlayOpenHorseWindow", id |-> 32, state |-> "Play", direction |-> "ClientBound", body |-> "PlayOpenHorseWindowSpec",
     fields |-> <<<<"window_id", "u8">>, <<"number_of_slots", "VarInt">>, <<"entity_id", "i32">>>>],
    [name |-> "PlayServerKeepAlive", id |-> 33, state |-> "Play", direction |-> "ClientBound", body |-> "PlayServerKeepAliveSpec",
     fields |-> <<<<"id", "i64">>>>],
    [name |-> "PlayChunkData", id |-> 34, state |-> "Play", direction |-> "ClientBound", body |-> "PlayChunkDataWrapper",
     fields |-> <<<<"data", "ChunkData">>>>],
    [name |-> "PlayEffect", id |-> 35, state |-> "Play", direction |-> "ClientBound", body |-> "PlayEffectSpec",
     fields |-> <<<<"effect_id", "i32">>, <<"location", "IntPosition">>, <<"data", "i32">>, <<"disable_relative_volume", "bool">>>>],
    [name |-> "PlayParticle", id |-> 36, state |-> "Play", direction |-> "ClientBound", body |-> "PlayParticleSpec",
     fields |-> <<<<"particle_id", "i32">>, <<"long_distance", "bool">>, <<"x", "f64">>, <<"y", "f64">>, <<"z", "f64">>, <<"offset_x", "f32">>, <<"offset_y", "f32">>, <<"offset_z", "f32">>, <<"particle_data", "i32">>, <<"data", "RemainingBytes">>>>],
    [name |-> "PlayUpdateLight", id |-> 37, state |-> "Play", direction |-> "ClientBound", body |-> "PlayUpdateLightSpec",
     fields |-> <<<<"chunk_x", "VarInt">>, <<"chunk_z", "VarInt">>, <<"update", "LightingUpdateSpec">>>>],
    [name |-> "PlayJoinGame", id |-> 38, state |-> "Play", direction |-> "ClientBound", body |-> "PlayJoinGameSpec",
     fields |-> <<<<"entity_id", "i32">>, <<"gamemode", "GameMode">>, <<"dimension", "Dimension">>, <<"hashed_seed", "i64">>, <<"max_players", "u8">>, <<"level_type", "String">>, <<"view_distance", "VarInt">>, <<"reduced_debug_info", "bool">>, <<"enable_respawn_screen", "bool">>>>],
    [name |-> "PlayMapData", id |-> 39, state |-> "Play", direction |-> "ClientBound", body |-> "PlayMapDataSpec",
     fields |-> <<<<"map_id", "VarInt">>, <<"scale", "i8">>, <<"tracking_position", "bool">>, <<"locked", "bool">>, <<"icons", "VarIntCountedArray<MapIconSpec>">>, <<"columns", "MapColumns">>>>],
    [name |-> "PlayTradeList", id |-> 40, state |-> "Play", direction |-> "ClientBound", body |-> "PlayTradeListSpec",
     fields |-> <<<<"window_id", "VarInt">>, <<"trades", "ByteCountedArray<TradeSpec>">>, <<"villager_level", "VarInt">>, <<"experience", "VarInt">>, <<"regular_villager", "bool">>, <<"can_restock", "bool">>>>],
    [name |-> "PlayEntityPosition", id |-> 41, state |-> "Play", direction |-> "ClientBound", body |-> "PlayEntityPositionSpec",
     fields |-> <<<<"entity_id", "VarInt">>, <<"delta_x", "i16">>, <<"delta_y", "i16">>, <<"delta_z", "i16">>, <<"on_ground", "bool">>>>],
    [name |-> "PlayEntityPositionAndRotation", id |-> 42, state |-> "Play", direction |-> "ClientBound", body |-> "PlayEntityPositionAndRotationSpec",
     fields |-> <<<<"entity_id", "VarInt">>, <<"delta_x", "i16">>, <<"delta_y", "i16">>, <<"delta_z", "i16">>, <<"yaw", "Angle">>, <<"pitch", "Angle">>, <<"on_ground", "bool">>>>],
    [name |-> "PlayEntityRotation", id |-> 43, state |-> "Play", direction |-> "ClientBound", body |-> "PlayEntityRotationSpec",
     fields |-> <<<<"entity_id", "VarInt">>, <<"yaw", "Angle">>, <<"pitch", "Angle">>, <<"on_ground", "bool">>>>],
    [name |-> "PlayEntityMovement", id |-> 44, state |-> "Play", direction |-> "ClientBound", body |-> "PlayEntityMovementSpec",
     fields |-> <<<<"entity_id", "VarInt">>>>],
    [name |-> "PlayServerVehicleMove", id |-> 45, state |-> "Play", direction |-> "ClientBound", body |-> "PlayEntityVehicleMoveSpec",
     fields |-> <<<<"x", "f64">>, <<"y", "f64">>, <<"z", "f64">>, <<"yaw", "f32">>, <<"pitch", "f32">>>>],
    [name |-> "PlayOpenBook", id |-> 46, state |-> "Play", direction |-> "ClientBound", body |-> "PlayOpenBookSpec",
     fields |-> <<<<"hand", "Hand">>>>],
    [name |-> "PlayOpenWindow", id |-> 47, state |-> "Play", direction |-> "ClientBound", body |-> "PlayOpenWindowSpec",
     fields |-> <<<<"id", "VarInt">>, <<"kind", "WindowType">>, <<"title", "String">>>>],
    [name |-> "PlayOpenSignEditor", id |-> 48, state |-> "Play", direction |-> "ClientBound", body |-> "PlayOpenSignEditorSpec",
     fields |-> <<<<"location", "IntPosition">>>>],
    [name |-> "PlayCraftRecipeResponse", id |-> 49, state |-> "Play", direction |-> "ClientBound", body |-> "PlayCraftRecipeResponseSpec",
     fields |-> <<<<"window_id", "u8">>, <<"recipe", "String">>>>],
    [name |-> "PlayServerPlayerAbilities", id |-> 50, state |-> "Play", direction |-> "ClientBound", body |-> "PlayServerPlayerAbilitiesSpec",
     fields |-> <<<<"flags", "PlayerAbilityFlags">>, <<"flying_speed", "f32">>, <<"field_of_view_modifier", "f32">>>>],
    [name |-> "PlayCombatEvent", id |-> 51, state |-> "Play", direction |-> "ClientBound", body |-> "PlayCombatEventSpec",
     fields |-> <<<<"event", "CombatEvent">>>>],
    [name |-> "PlayPlayerInfo", id |-> 52, state |-> "Play", direction |-> "ClientBound", body |-> "PlayPlayerInfoSpec",
     fields |-> <<<<"actions", "PlayerInfoActionList">>>>],
    [name |-> "PlayFacePlayer", id |-> 53, state |-> "Play", direction |-> "ClientBound", body |-> "PlayFacePlayerSpec",
     fields |-> <<<<"face_kind", "FacePlayerKind">>, <<"target_x", "f64">>, <<"target_y", "f64">>, <<"target_z", "f64">>, <<"entity", "Option<FacePlayerEntityTarget>">>>>],
    [name |-> "PlayServerPlayerPositionAndLook", id |-> 54, state |-> "Play", direction |-> "ClientBound", body |-> "PlayServerPlayerPositionAndLookSpec",
     fields |-> <<<<"x", "f64">>, <<"y", "f64">>, <<"z", "f64">>, <<"yaw", "f32">>, <<"pitch", "f32">>, <<"flags", "PositionAndLookFlags">>, <<"teleport_id", "VarInt">>>>],
    [name |-> "PlayUnlockRecipes", id |-> 55, state |-> "Play", direction |-> "ClientBound", body |-> "PlayUnlockRecipesSpec",
     fields |-> <<<<"action", "RecipeUnlockAction">>, <<"crafting_book_open", "bool">>, <<"crafting_book_active", "bool">>, <<"smelting_book_open", "bool">>, <<"smelting_book_active", "bool">>, <<"recipe_ids", "VarIntCountedArray<String>">>, <<"other_recipe_ids", "RemainingBytes">>>>],
    [name |-> "PlayDestroyEntities", id |-> 56, state |-> "Play", direction |-> "ClientBound", body |-> "PlayDestroyEntitiesSpec",
     fields |-> <<<<"entity_ids", "VarIntCountedArray<VarInt>">>>>],
    [name |-> "PlayRemoveEntityEffect", id |-> 57, state |-> "Play", direction |-> "ClientBound", body |-> "PlayRemoveEntityEffectSpec",
     fields |-> <<<<"entity_id", "VarInt">>, <<"effect", "EntityEffectKind">>>>],
    [name |-> "PlayResourcePackSend", id |-> 58, state |-> "Play", direction |-> "ClientBound", body |-> "PlayResourcePackSendSpec",
     fields |-> <<<<"url", "String">>, <<"hash", "String">>>>],
    [name |-> "PlayRespawn", id |-> 59, state |-> "Play", direction |-> "ClientBound", body |-> "PlayRespawnSpec",
     fields |-> <<<<"dimension", "Dimension">>, <<"hashed_seed", "i64">>, <<"gamemode", "GameMode">>, <<"level_type", "String">>>>],
    [name |-> "PlayEntityHeadLook", id |-> 60, state |-> "Play", direction |-> "ClientBound", body |-> "PlayEntityHeadLookSpec",
     fields |-> <<<<"entity_id", "VarInt">>, <<"head_yaw", "Angle">>>>],
    [name |-> "PlaySelectAdvancementTab", id |-> 61, state |-> "Play", direction |-> "ClientBound", body |-> "PlaySelectAdvancementTabSpec",
     fields |-> <<<<"identifier", "Option<String>">>>>],
    [name |-> "PlayWorldBorder", id |-> 62, state |-> "Play", direction |-> "ClientBound", body |-> "PlayWorldBorderSpec",
     fields |-> <<<<"action", "WorldBorderAction">>>>],
    [name |-> "PlayCamera", id |-> 63, state |-> "Play", direction |-> "ClientBound", body |-> "PlayCameraSpec",
     fields |-> <<<<"camera_id", "VarInt">>>>],
    [name |-> "PlayServerHeldItemChange", id |-> 64, state |-> "Play", direction |-> "ClientBound", body |-> "PlayServerHeldItemChangeSpec",
     fields |-> <<<<"slot", "i8">>>>],
    [name |-> "PlayUpdateViewPosition", id |-> 65, state |-> "Play", direction |-> "ClientBound", body |-> "PlayUpdateViewPositionSpec",
     fields |-> <<<<"chunk_x", "VarInt">>, <<"chunk_z", "VarInt">>>>],
    [name |-> "PlayUpdateViewDistance", id |-> 66, state |-> "Play", direction |-> "ClientBound", body |-> "PlayUpdateViewDistanceSpec",
     fields |-> <<<<"view_distance", "VarInt">>>>],
    [name |-> "PlayDisplayScoreboard", id |-> 67, state |-> "Play", direction |-> "ClientBound", body |-> "PlayDisplayScoreboardSpec",
     fields |-> <<<<"position", "ScoreboardPosition">>, <<"score_name", "String">>>>],
    [name |-> "PlayEntityMetadata", id |-> 68, state |-> "Play", direction |-> "ClientBound", body |-> "PlayEntityMetadataSpec",
     fields |-> <<<<"entity_id", "VarInt">>, <<"metadata", "EntityMetadata">>>>],
    [name |-> "PlayAttachEntity", id |-> 69, state |-> "Play", direction |-> "ClientBound", body |-> "PlayAttachEntitySpec",
     fields |-> <<<<"attached_entity_id", "i32">>, <<"holding_entity_id", "i32">>>>],
    [name |-> "PlayEntityVelocity", id |-> 70, state |-> "Play", direction |-> "ClientBound", body |-> "PlayEntityVelocitySpec",
     fields |-> <<<<"entity_id", "VarInt">>, <<"velocity_x", "i16">>, <<"velocity_y", "i16">>, <<"velocity_z", "i16">>>>],
    [name |-> "PlayEntityEquipment", id |-> 71, state |-> "Play", direction |-> "ClientBound", body |-> "PlayEntityEquiptmentSpec",
     fields |-> <<<<"entity_id", "VarInt">>, <<"slot", "EquipmentSlot">>, <<"item", "Option<Slot>">>>>],
    [name |-> "PlaySetExperience", id |-> 72, state |-> "Play", direction |-> "ClientBound", body |-> "PlaySetExperienceSpec",
     fields |-> <<<<"experience_bar", "f32">>, <<"level", "VarInt">>, <<"total_experience", "VarInt">>>>],
    [name |-> "PlayUpdatehealth", id |-> 73, state |-> "Play", direction |-> "ClientBound", body |-> "PlayUpdateHealthSpec",
     fields |-> <<<<"health", "f32">>, <<"food", "VarInt">>, <<"saturation", "f32">>>>],
    [name |-> "PlayScoreboardObjective", id |-> 74, state |-> "Play", direction |-> "ClientBound", body |-> "PlayScoreboardObjectiveSpec",
     fields |-> <<<<"objective_name", "String">>, <<"action", "ScoreboardObjectiveAction">>>>],
    [name |-> "PlaySetPassengers", id |-> 75, state |-> "Play", direction |-> "ClientBound", body |-> "PlaySetPassengersSpec",
     fields |-> <<<<"entity_id", "VarInt">>, <<"passenger_entitiy_ids", "VarIntCountedArray<VarInt>">>>>],
    [name |-> "PlayTeams", id |-> 76, state |-> "Play", direction |-> "ClientBound", body |-> "PlayTeamsSpec",
     fields |-> <<<<"team_name", "String">>, <<"action", "TeamAction">>>>],
    [name |-> "PlayUpdateScore", id |-> 77, state |-> "Play", direction |-> "ClientBound", body |-> "PlayUpdateScoreSpec",
     fields |-> <<<<"entity_name", "TeamMember">>, <<"update", "UpdateScoreSpec">>>>],
    [name |-> "PlaySpawnPosition", id |-> 78, state |-> "Play", direction |-> "ClientBound", body |-> "PlaySpawnPositionSpec",
     fields |-> <<<<"location", "IntPosition">>>>],
    [name |-> "PlayTimeUpdate", id |-> 79, state |-> "Play", direction |-> "ClientBound", body |-> "PlayTimeUpdateSpec",
     fields |-> <<<<"world_age", "i64">>, <<"time_of_day", "i64">>>>],
    [name |-> "PlayTitle", id |-> 80, state |-> "Play", direction |-> "ClientBound", body |-> "PlayTitleSpec",
     fields |-> <<<<"action", "TitleActionSpec">>>>],
    [name |-> "PlayEntitySoundEffect", id |-> 81, state |-> "Play", direction |-> "ClientBound", body |-> "PlayEntitySoundEffectSpec",
     fields |-> <<<<"sound_id", "VarInt">>, <<"sound_category", "SoundCategory">>, <<"entity_id", "VarInt">>, <<"volume", "f32">>, <<"pitch", "f32">>>>],
    [name |-> "PlaySoundEffect", id |-> 82, state |-> "Play", direction |-> "ClientBound", body |-> "PlaySoundEffectSpec",
     fields |-> <<<<"sound_id", "VarInt">>, <<"sound_category", "SoundCategory">>, <<"position_x", "FixedInt">>, <<"position_y", "FixedInt">>, <<"position_z", "FixedInt">>, <<"volume", "f32">>, <<"pitch", "f32">>>>],
    [name |-> "PlayStopSound", id |-> 83, state |-> "Play", direction |-> "ClientBound", body |-> "PlayStopSoundSpec",
     fields |-> <<<<"spec", "StopSoundSpec">>>>],
    [name |-> "PlayerPlayerListHeaderAndFooter", id |-> 84, state |-> "Play", direction |-> "ClientBound", body |-> "PlayPlayerListHeaderAndFooterSpec",
     fields |-> <<<<"header", "Chat">>, <<"footer", "Chat">>>>],
    [name |-> "PlayNbtQueryResponse", id |-> 85, state |-> "Play", direction |-> "ClientBound", body |-> "PlayNbtQueryResponseSpec",
     fields |-> <<<<"transaction_id", "VarInt">>, <<"nbt", "NamedNbtTag">>>>],
    [name |-> "PlayCollectItem", id |-> 86, state |-> "Play", direction |-> "ClientBound", body |-> "PlayCollectItemSpec",
     fields |-> <<<<"collected_entity_id", "VarInt">>, <<"collector_entity_id", "VarInt">>, <<"pickup_item_count", "VarInt">>>>],
    [name |-> "PlayEntityTeleport", id |-> 87, state |-> "Play", direction |-> "ClientBound", body |-> "PlayEntityTeleportSpec",
     fields |-> <<<<"entity_id", "VarInt">>, <<"x", "f64">>, <<"y", "f64">>, <<"z", "f64">>, <<"yaw", "Angle">>, <<"pitch", "Angle">>, <<"on_ground", "bool">>>>],
    [name |-> "PlayAdvancements", id |-> 88, state |-> "Play", direction |-> "ClientBound", body |-> "PlayAdvancementsSpec",
     fields |-> <<<<"reset", "bool">>, <<"mappings", "VarIntCountedArray<AdvancementMappingEntrySpec>">>, <<"identifiers", "VarIntCountedArray<String>">>, <<"progress", "VarIntCountedArray<AdvancementProgressEntrySpec>">>>>],
    [name |-> "PlayEntityProperties", id |-> 89, state |-> "Play", direction |-> "ClientBound", body |-> "PlayEntityPropertiesSpec",
     fields |-> <<<<"entity_id", "VarInt">>, <<"properties", "IntCountedArray<EntityPropertySpec>">>>>],
    [name |-> "PlayEntityEffect", id |-> 90, state |-> "Play", direction |-> "ClientBound", body |-> "PlayEntityEffectSpec",
     fields |-> <<<<"entity_id", "VarInt">>, <<"effect_id", "EntityEffectKind">>, <<"amplifier", "i8">>, <<"duration_ticks", "VarInt">>, <<"flags", "EntityEffectFlags">>>>],
    [name |-> "PlayDeclareRecipes", id |-> 91, state |-> "Play", direction |-> "ClientBound", body |-> "PlayDeclareRecipesSpec",
     fields |-> <<<<"recipes", "VarIntCountedArray<RecipeSpec>">>>>],
    [name |-> "PlayTags", id |-> 92, state |-> "Play", direction |-> "ClientBound", body |-> "PlayTagsSpec",
     fields |-> <<<<"block_tags", "VarIntCountedArray<TagSpec>">>, <<"item_tags", "VarIntCountedArray<TagSpec>">>, <<"fluid_tags", "VarIntCountedArray<TagSpec>">>, <<"entity_tags", "VarIntCountedArray<TagSpec>">>>>],
    [name |-> "PlayTeleportConfirm", id |-> 0, state |-> "Play", direction |-> "ServerBound", body |-> "PlayTeleportConfirmSpec",
     fields |-> <<<<"teleport_id", "VarInt">>>>],
    [name |-> "PlayQueryBlockNbt", id |-> 1, state |-> "Play", direction |-> "ServerBound", body |-> "PlayQueryBlockNbtSpec",
     fields |-> <<<<"transaction_id", "VarInt">>, <<"location", "IntPosition">>>>],
    [name |-> "PlayQueryEntityNbt", id |-> 13, state |-> "Play", direction |-> "ServerBound", body |-> "PlayQueryEntityNbtSpec",
     fields |-> <<<<"transaction_id", "VarInt">>, <<"entity_id", "VarInt">>>>],
    [name |-> "PlaySetDifficulty", id |-> 2, state |-> "Play", direction |-> "ServerBound", body |-> "PlaySetDifficultySpec",
     fields |-> <<<<"new_difficulty", "Difficulty">>>>],
    [name |-> "PlayClientChatMessage", id |-> 3, state |-> "Play", direction |-> "ServerBound", body |-> "PlayClientChatMessageSpec",
     fields |-> <<<<"message", "String">>>>],
    [name |-> "PlayClientStatus", id |-> 4, state |-> "Play", direction |-> "ServerBound", body |-> "PlayClientStatusSpec",
     fields |-> <<<<"action", "ClientStatusAction">>>>],
    [name |-> "PlayClientSettings", id |-> 5, state |-> "Play", direction |-> "ServerBound", body |-> "PlayClientSettingsSpec",
     fields |-> <<<<"locale", "String">>, <<"view_distance", "i8">>, <<"chat_mode", "ClientChatMode">>, <<"chat_colors", "bool">>, <<"displayed_skin_parts", "ClientDisplayedSkinParts">>, <<"main_hand", "ClientMainHand">>>>],
    [name |-> "PlayClientTabComplete", id |-> 6, state |-> "Play", direction |-> "ServerBound", body |-> "PlayClientTabCompleteSpec",
     fields |-> <<<<"transaction_id", "VarInt">>, <<"text", "String">>>>],
    [name |-> "PlayClientWindowConfirmation", id |-> 7, state |-> "Play", direction |-> "ServerBound", body |-> "PlayClientWindowConfirmationSpec",
     fields |-> <<<<"window_id", "i8">>, <<"action_num", "i16">>, <<"accepted", "bool">>>>],
    [name |-> "PlayClickWindowButton", id |-> 8, state |-> "Play", direction |-> "ServerBound", body |-> "PlayClickWindowButtonSpec",
     fields |-> <<<<"window_id", "i8">>, <<"button_id", "i8">>>>],
    [name |-> "PlayClickWindow", id |-> 9, state |-> "Play", direction |-> "ServerBound", body |-> "PlayClickWindowSpec",
     fields |-> <<<<"window_id", "u8">>, <<"slot", "i16">>, <<"button", "i8">>, <<"action_number", "i16">>, <<"mode", "InventoryOperationMode">>, <<"clicked_item", "Option<Slot>">>>>],
    [name |-> "PlayClientCloseWindow", id |-> 10, state |-> "Play", direction |-> "ServerBound", body |-> "PlayClientCloseWindowSpec",
     fields |-> <<<<"window_id", "u8">>>>],
    [name |-> "PlayClientPluginMessage", id |-> 11, state |-> "Play", direction |-> "ServerBound", body |-> "PlayClientPluginMessageSpec",
     fields |-> <<<<"channel", "String">>, <<"data", "RemainingBytes">>>>],
    [name |-> "PlayEditBook", id |-> 12, state |-> "Play", direction |-> "ServerBound", body |-> "PlayEditBookSpec",
     fields |-> <<<<"new_book", "Option<Slot>">>, <<"is_signing", "bool">>, <<"hand", "Hand">>>>],
    [name |-> "PlayInteractEntity", id |-> 14, state |-> "Play", direction |-> "ServerBound", body |-> "PlayInteractEntitySpec",
     fields |-> <<<<"entity_id", "VarInt">>, <<"kind", "InteractKind">>>>],
    [name |-> "PlayClientKeepAlive", id |-> 15, state |-> "Play", direction |-> "ServerBound", body |-> "PlayClientKeepAliveSpec",
     fields |-> <<<<"id", "i64">>>>],
    [name |-> "PlayLockDifficulty", id |-> 16, state |-> "Play", direction |-> "ServerBound", body |-> "PlayLockDifficultySpec",
     fields |-> <<<<"locked", "bool">>>>],
    [name |-> "PlayPlayerPosition", id |-> 17, state |-> "Play", direction |-> "ServerBound", body |-> "PlayPlayerPositionSpec",
     fields |-> <<<<"x", "f64">>, <<"feet_y", "f64">>, <<"z", "f64">>, <<"on_ground", "bool">>>>],
    [name |-> "PlayClientPlayerPositionAndRotation", id |-> 18, state |-> "Play", direction |-> "ServerBound", body |-> "PlayClientPlayerPositionAndRotationSpec",
     fields |-> <<<<"x", "f64">>, <<"feet_y", "f64">>, <<"z", "f64">>, <<"yaw", "f32">>, <<"pitch", "f32">>, <<"on_ground", "bool">>>>],
    [name |-> "PlayPlayerRotation", id |-> 19, state |-> "Play", direction |-> "ServerBound", body |-> "PlayPlayerRotationSpec",
     fields |-> <<<<"yaw", "f32">>, <<"pitch", "f32">>, <<"on_ground", "bool">>>>],
    [name |-> "PlayPlayerMovement", id |-> 20, state |-> "Play", direction |-> "ServerBound", body |-> "PlayPlayerMovementSpec",
     fields |-> <<<<"on_ground", "bool">>>>],
    [name |-> "PlayClientVehicleMove", id |-> 21, state |-> "Play", direction |-> "ServerBound", body |-> "PlayClientVehicleMoveSpec",
     fields |-> <<<<"x", "f64">>, <<"y", "f64">>, <<"z", "f64">>, <<"yaw", "f32">>, <<"pitch", "f32">>>>],
    [name |-> "PlaySteerBoat", id |-> 22, state |-> "Play", direction |-> "ServerBound", body |-> "PlaySteerBoatSpec",
     fields |-> <<<<"left_paddle_turning", "bool">>, <<"right_paddle_turning", "bool">>>>],
    [name |-> "PlayPickItem", id |-> 23, state |-> "Play", direction |-> "ServerBound", body |-> "PlayPickItemSpec",
     fields |-> <<<<"slot_idx", "VarInt">>>>],
    [name |-> "PlayCraftRecipeRequest", id |-> 24, state |-> "Play", direction |-> "ServerBound", body |-> "PlayCraftRecipeRequestSpec",
     fields |-> <<<<"window_id", "i8">>, <<"recipe", "String">>, <<"make_all", "bool">>>>],
    [name |-> "PlayClientPlayerAbilities", id |-> 25, state |-> "Play", direction |-> "ServerBound", body |-> "PlayClientPlayerAbilitiesSpec",
     fields |-> <<<<"flags", "ClientPlayerAbilities">>, <<"flying_speed", "f32">>, <<"walking_speed", "f32">>>>],
    [name |-> "PlayPlayerDigging", id |-> 26, state |-> "Play", direction |-> "ServerBound", body |-> "PlayPlayerDiggingSpec",
     fields |-> <<<<"status", "PlayerDiggingStatus">>, <<"location", "IntPosition">>, <<"face", "DiggingFace">>>>],
    [name |-> "PlayEntityAction", id |-> 27, state |-> "Play", direction |-> "ServerBound", body |-> "PlayEntityActionSpec",
     fields |-> <<<<"entity_id", "VarInt">>, <<"action", "EntityActionKind">>, <<"jump_boot", "VarInt">>>>],
    [name |-> "PlaySteerVehicle", id |-> 28, state |-> "Play", direction |-> "ServerBound", body |-> "PlaySteerVehicleSpec",
     fields |-> <<<<"sideways", "f32">>, <<"forward", "f32">>, <<"flags", "SteerVehicleFlags">>>>],
    [name |-> "PlayRecipeBookData", id |-> 29, state |-> "Play", direction |-> "ServerBound", body |-> "PlayRecipeBookDataSpec",
     fields |-> <<<<"status", "RecipeBookStatus">>>>],
    [name |-> "PlayNameItem", id |-> 30, state |-> "Play", direction |-> "ServerBound", body |-> "PlayNameItemSpec",
     fields |-> <<<<"name", "String">>>>],
    [name |-> "PlayResourcePackStatus", id |-> 31, state |-> "Play", direction |-> "ServerBound", body |-> "PlayResourcePackStatusSpec",
     fields |-> <<<<"status", "ResourcePackStatus">>>>],
    [name |-> "PlayAdvancementTab", id |-> 32, state |-> "Play", direction |-> "ServerBound", body |-> "PlayAdvancementTabSpec",
     fields |-> <<<<"action", "AdvancementTabAction">>>>],
    [name |-> "PlaySelectTrade", id |-> 33, state |-> "Play", direction |-> "ServerBound", body |-> "PlaySelectTradeSpec",
     fields |-> <<<<"selected_slot", "VarInt">>>>],
    [name |-> "PlaySetBeaconEffect", id |-> 34, state |-> "Play", direction |-> "ServerBound", body |-> "PlaySetBeaconEffectSpec",
     fields |-> <<<<"primary_effect", "VarInt">>, <<"secondary_effect", "VarInt">>>>],
    [name |-> "PlayClientHeldItemChange", id |-> 35, state |-> "Play", direction |-> "ServerBound", body |-> "PlayClientHeldItemChangeSpec",
     fields |-> <<<<"slot", "i16">>>>],
    [name |-> "PlayUpdateCommandBlock", id |-> 36, state |-> "Play", direction |-> "ServerBound", body |-> "PlayUpdateCommandBlockSpec",
     fields |-> <<<<"location", "IntPosition">>, <<"command", "String">>, <<"mode", "CommandBlockMode">>, <<"flags", "CommandBlockFlags">>>>],
    [name |-> "PlayUpdateCommandBlockMinecart", id |-> 37, state |-> "Play", direction |-> "ServerBound", body |-> "PlayUpdateCommandBlockMinecartSpec",
     fields |-> <<<<"entity_id", "VarInt">>, <<"command", "String">>, <<"track_output", "bool">>>>],
    [name |-> "PlayCreativeInventoryAction", id |-> 38, state |-> "Play", direction |-> "ServerBound", body |-> "PlayCreativeInventoryActionSpec",
     fields |-> <<<<"slot", "i16">>, <<"clicked_item", "Option<Slot>">>>>],
    [name |-> "PlayUpdateJigsawBlock", id |-> 39, state |-> "Play", direction |-> "ServerBound", body |-> "PlayUpdateJigsawBlockSpec",
     fields |-> <<<<"location", "IntPosition">>, <<"attachment_type", "String">>, <<"target_pool", "String">>, <<"final_state", "String">>>>],
    [name |-> "PlayUpdateStructureBlock", id |-> 40, state |-> "Play", direction |-> "ServerBound", body |-> "PlayUpdateStructureBlockSpec",
     fields |-> <<<<"location", "IntPosition">>, <<"action", "UpdateStructureBlockAction">>, <<"mode", "UpdateStructureBlockMode">>, <<"name", "String">>, <<"offset_x", "i8">>, <<"offset_y", "i8">>, <<"offset_z", "i8">>, <<"size_x", "i8">>, <<"size_y", "i8">>, <<"size_z", "i8">>, <<"mirror", "UpdateStructureBlockMirror">>, <<"rotation", "UpdateStructureBlockRotation">>, <<"metadata", "String">>, <<"integrity", "f32">>, <<"seed", "VarLong">>, <<"flags", "UpdateStructureBlockFlags">>>>],
    [name |-> "PlayUpdateSign", id |-> 41, state |-> "Play", direction |-> "ServerBound", body |-> "PlayUpdateSignSpec",
     fields |-> <<<<"location", "IntPosition">>, <<"line1", "String">>, <<"line2", "String">>, <<"line3", "String">>, <<"line4", "String">>>>],
    [name |-> "PlayClientAnimation", id |-> 42, state |-> "Play", direction |-> "ServerBound", body |-> "PlayClientAnimationSpec",
     fields |-> <<<<"hand", "Hand">>>>],
    [name |-> "PlaySpectate", id |-> 43, state |-> "Play", direction |-> "ServerBound", body |-> "PlaySpectateSpec",
     fields |-> <<<<"target", "UUID4">>>>],
    [name |-> "PlayBlockPlacement", id |-> 44, state |-> "Play", direction |-> "ServerBound", body |-> "PlayBlockPlacementSpec",
     fields |-> <<<<"hand", "Hand">>, <<"location", "IntPosition">>, <<"face", "DiggingFace">>, <<"cursor_position_x", "f32">>, <<"cursor_position_y", "f32">>, <<"cursor_position_z", "f32">>, <<"inside_block", "bool">>>>],
    [name |-> "PlayUseItem", id |-> 45, state |-> "Play", direction |-> "ServerBound", body |-> "PlayUseItemSpec",
     fields |-> <<<<"hand", "Hand">>>>]
  >>

States == {"Handshaking", "Status", "Login", "Play"}

Directions == {"ClientBound", "ServerBound"}

\* PacketDirection::opposite
opposite(d) == IF d = "ClientBound" THEN "ServerBound" ELSE "ClientBound"

\* the (state, direction, id) key of the i-th registry entry
EntryKeyDuplicateId(i) ==
  <<Registry[i].state, Registry[i].direction,
    IF Registry[i].name = "PlayQueryEntityNbt" THEN 12 ELSE Registry[i].id>>

EntryKeyWrongState(i) ==
  <<IF Registry[i].name = "LoginStart" THEN "Status" ELSE Registry[i].state,
    Registry[i].direction, Registry[i].id>>

EntryKey(i) == <<Registry[i].state, Registry[i].direction, Registry[i].id>>

\* the keys of all entries, in declaration order
KeyTable == [i \in DOMAIN Registry |-> EntryKey(i)]

\* the pairs of distinct entries that carry the same key
DuplicateKeyPairs ==
  {p \in (DOMAIN Registry) \X (DOMAIN Registry) : p[1] < p[2] /\ KeyTable[p[1]] = KeyTable[p[2]]}

\* the registry entries whose key is k
EntriesWithKey(k) == {i \in DOMAIN Registry : KeyTable[i] = k}

PacketNames == {Registry[i].name : i \in DOMAIN Registry}

\* the index of the registry entry of each variant
EntryIndex == [m \in PacketNames |-> CHOOSE i \in DOMAIN Registry : Registry[i].name = m]

EntryOf(m) == EntryIndex[m]

\* decode-path lookup (RawPacket578::deserialize): the arms of the match are
\* the entries in declaration order, so the first entry with the key is
\* taken; a key with no entry is an error carrying the id
Resolve(state, direction, id) ==
  LET hits == EntriesWithKey(<<state, direction, id>>)
  IN IF hits = {} THEN Err(<<"UnknownId", id>>)
     ELSE LET i == CHOOSE h \in hits : \A o \in hits : h <= o
          IN Ok([name |-> Registry[i].name, body |-> Registry[i].body], <<>>)

\* encode-path lookup (Packet578::id): the key declared for the variant
PacketId(m) == KeyTable[EntryOf(m)]

(***************************************************************************)
(* Actions of the registry.                                                *)
(***************************************************************************)
Init ==
  /\ op = "init"
  /\ arg = <<>>
  /\ res = <<>>

\* a raw packet with some id arrives in some state and direction
ResolvePacket ==
  /\ op = "init"
  /\ \E s \in States, d \in Directions, id \in 0..MaxPacketId :
       /\ op' = "resolve"
       /\ arg' = <<s, d, id>>
       /\ res' = Resolve(s, d, id)

\* a typed packet is asked for its key in order to be framed
IdOfPacket ==
  /\ op = "init"
  /\ \E m \in PacketNames :
       /\ op' = "id"
       /\ arg' = m
       /\ res' = PacketId(m)

NextRegistry == ResolvePacket \/ IdOfPacket

SpecRegistry == Init /\ [][NextRegistry]_vars

\* C2: no two entries of the registry share a (state, direction, id) key:
\* no pair of distinct entries has the same key, and whatever key a raw
\* packet is resolved with, at most one entry carries it.
C2_UniqueKeys ==
  /\ DuplicateKeyPairs = {}
  /\ op = "resolve" => Cardinality(EntriesWithKey(arg)) <= 1

\* id 0x0D is resolved in Play/ServerBound, where the table is out of
\* numeric order (PlayQueryEntityNbt is declared between 0x01 and 0x02)
C2_Witness ==
  /\ op = "resolve"
  /\ arg = <<"Play", "ServerBound", 13>>
  /\ IsOk(res)
  /\ res.value.name = "PlayQueryEntityNbt"

\* C3: the two lookups are mutually inverse: the key given by the encode
\* path for a variant m resolves on the decode path to m and its body
\* struct, no other variant has that key, and whatever the decode path
\* resolves a key to has that key on the encode path.
C3_LookupsInverse ==
  /\ op = "id" =>
       /\ Resolve(res[1], res[2], res[3]) =
            Ok([name |-> arg, body |-> Registry[EntryOf(arg)].body], <<>>)
       /\ \A o \in PacketNames : PacketId(o) = res => o = arg
  /\ (op = "resolve" /\ IsOk(res)) => PacketId(res.value.name) = arg

C3_Witness ==
  /\ op = "id"
  /\ arg = "PlayEditBook"
  /\ res = <<"Play", "ServerBound", 12>>

(***************************************************************************)
(* usize.  A usize is 64 bits wide and TLC integers are 32 bits wide, so a *)
(* usize is modelled exactly as its four 16-bit limbs, most significant    *)
(* first.                                                                  *)
(***************************************************************************)
\* the usize of a natural number below 2^31 (a Vec length the model can form)
UsizeOf(n) == <<0, 0, n \div 65536, n % 65536>>

\* v as usize for a signed v of at most 32 bits: sign extension to 64 bits
SignExtend(v) ==
  IF v >= 0 THEN UsizeOf(v)
  ELSE <<65535, 65535, 65536 + (v \div 65536), v % 65536>>

\* u as i8, u as i16, u as i32: truncation to the low bits, read as signed
TruncateI8(u) == LET b == u[4] % 256 IN IF b >= 128 THEN b - 256 ELSE b

TruncateI16(u) == IF u[4] >= 32768 THEN u[4] - 65536 ELSE u[4]

TruncateI32(u) ==
  IF u[3] >= 32768 THEN (u[3] - 65536) * 65536 + u[4] ELSE u[3] * 65536 + u[4]

\* fn varint_to_usize(v: VarInt) -> usize { v.into() }
varint_to_usize(v) == SignExtend(v)

\* fn varint_from_usize(u: usize) -> VarInt { u.into() }
varint_from_usize(u) == TruncateI32(u)

\* fn i16_to_usize(v: i16) -> usize { v as usize }
i16_to_usize(v) == SignExtend(v)

\* fn i16_from_usize(u: usize) -> i16 { u as i16 }
i16_from_usize(u) == TruncateI16(u)

\* fn i32_to_usize(v: i32) -> usize { v as usize }
i32_to_usize(v) == SignExtend(v)

\* fn i32_from_usize(u: usize) -> i32 { u as i32 }
i32_from_usize(u) == TruncateI32(u)

\* fn i8_to_usize(v: i8) -> usize { v as usize }
i8_to_usize(v) == SignExtend(v)

\* fn i8_from_usize(u: usize) -> i8 { u as i8 }
i8_from_usize(u) == TruncateI8(u)

\* the eight bytes of a usize, least significant first
UsizeBytes(u) ==
  <<u[4] % 256, u[4] \div 256, u[3] % 256, u[3] \div 256,
    u[2] % 256, u[2] \div 256, u[1] % 256, u[1] \div 256>>

\* the sum of the byte products a[i] * b[j] of weight 256^(k-1), from i on
RECURSIVE MulColumn(_, _, _, _)
MulColumn(a, b, k, i) ==
  IF i > 8 THEN 0
  ELSE (IF (k + 1 - i) \in 1..8 THEN a[i] * b[k + 1 - i] ELSE 0) + MulColumn(a, b, k, i + 1)

\* the sixteen bytes of the full product, least significant first
RECURSIVE MulDigits(_, _, _, _)
MulDigits(a, b, k, carry) ==
  IF k > 16 THEN <<>>
  ELSE <<(MulColumn(a, b, k, 1) + carry) % 256>>
         \o MulDigits(a, b, k + 1, (MulColumn(a, b, k, 1) + carry) \div 256)

UsizeFromDigits(d) ==
  [value |-> <<d[8] * 256 + d[7], d[6] * 256 + d[5], d[4] * 256 + d[3], d[2] * 256 + d[1]>>,
   overflow |-> \E k \in 9..16 : d[k] # 0]

\* x * y on usize: the low 64 bits of the product, and whether the product
\* does not fit (a panic with overflow checks, a wrap without)
usize_mul(x, y) == UsizeFromDigits(MulDigits(UsizeBytes(x), UsizeBytes(y), 1, 0))

\* x > y on usize
UsizeGreater(x, y) ==
  \E k \in 1..4 : x[k] > y[k] /\ \A j \in 1..(k - 1) : x[j] = y[j]

\* big-endian i16
i16_serialize(v) == <<(v \div 256) % 256, v % 256>>

i16_deserialize(data) ==
  IF Len(data) < 2 THEN Err("Eof")
  ELSE LET hi == IF data[1] >= 128 THEN data[1] - 256 ELSE data[1]
       IN Ok(hi * 256 + data[2], SubSeq(data, 3, Len(data)))

(***************************************************************************)
(* Types.  A type is written as the sequence of its constructor names,     *)
(* outermost first: VarIntCountedArray<Option<Slot>> is                    *)
(* <<"VarIntCountedArray", "Option", "Slot">>.  Serialize(t, v) is         *)
(* <t as Serialize>::mc_serialize and Deserialize(t, data) is              *)
(* <t as Deserialize>::mc_deserialize; both are defined at the end of the  *)
(* codec section, once every type has its codec.                           *)
(***************************************************************************)
RECURSIVE Serialize(_, _)
RECURSIVE Deserialize(_, _)

\* the four counted_array_type! instantiations: the type of the count field
\* and the two conversions between it and usize
CountedArrayTypes ==
  {"VarIntCountedArray", "ShortCountedArray", "IntCountedArray", "ByteCountedArray"}

CounterType(a) ==
  CASE a = "VarIntCountedArray" -> <<"VarInt">>
    [] a = "ShortCountedArray" -> <<"i16">>
    [] a = "IntCountedArray" -> <<"i32">>
    [] a = "ByteCountedArray" -> <<"i8">>

ToUsize(a, v) ==
  CASE a = "VarIntCountedArray" -> varint_to_usize(v)
    [] a = "ShortCountedArray" -> i16_to_usize(v)
    [] a = "IntCountedArray" -> i32_to_usize(v)
    [] a = "ByteCountedArray" -> i8_to_usize(v)

FromUsize(a, u) ==
  CASE a = "VarIntCountedArray" -> varint_from_usize(u)
    [] a = "ShortCountedArray" -> i16_from_usize(u)
    [] a = "IntCountedArray" -> i32_from_usize(u)
    [] a = "ByteCountedArray" -> i8_from_usize(u)

\* the elements of a sequence serialized one after the other, in order (the
\* sequence is split in halves to keep the evaluation shallow; the bytes
\* are those of the left-to-right loop)
RECURSIVE SerializeEach(_, _)
SerializeEach(t, elems) ==
  IF elems = <<>> THEN <<>>
  ELSE IF Len(elems) = 1 THEN Serialize(t, elems[1])
  ELSE LET h == Len(elems) \div 2
       IN SerializeEach(t, SubSeq(elems, 1, h)) \o SerializeEach(t, SubSeq(elems, h + 1, Len(elems)))

\* counted_array_type!: mc_serialize writes the count converted from
\* self.data.len(), then every element in order
CountedArray_serialize(a, t, elems) ==
  Serialize(CounterType(a), FromUsize(a, UsizeOf(Len(elems)))) \o SerializeEach(t, elems)

\* for _ in 0..n: decode one element from what the previous one left; the
\* first error ends the decode (the n iterations are split in halves to keep
\* the evaluation shallow; the elements are read left to right)
RECURSIVE ReadElements(_, _, _)
ReadElements(t, n, data) ==
  IF n = 0 THEN Ok(<<>>, data)
  ELSE IF n = 1 THEN
    LET r == Deserialize(t, data)
    IN IF ~IsOk(r) THEN r ELSE Ok(<<r.value>>, r.data)
  ELSE
    LET l == ReadElements(t, n \div 2, data)
    IN IF ~IsOk(l) THEN l
       ELSE LET r == ReadElements(t, n - (n \div 2), l.data)
            IN IF ~IsOk(r) THEN r ELSE Ok(l.value \o r.value, r.data)

\* the number of iterations of the element loop that can matter: every
\* element type of the model consumes at least one byte, so an iteration
\* after the data is exhausted fails, and a count above Len(data) behaves
\* as the count Len(data) + 1
LoopCount(count, data) ==
  IF count[1] = 0 /\ count[2] = 0 /\ count[3] < 32768
       /\ count[3] * 65536 + count[4] <= Len(data)
  THEN count[3] * 65536 + count[4]
  ELSE Len(data) + 1

\* counted_array_type!: mc_deserialize reads the count, converts it to a
\* usize and decodes that many elements
CountedArray_deserialize(a, t, data) ==
  LET c == Deserialize(CounterType(a), data)
  IN IF ~IsOk(c) THEN c
     ELSE ReadElements(t, LoopCount(ToUsize(a, c.value), c.data), c.data)

\* Option<T>: a boolean, then the value if it is present
Option_serialize(t, o) ==
  IF o.some THEN bool_serialize(TRUE) \o Serialize(t, o.value) ELSE bool_serialize(FALSE)

Option_deserialize(t, data) ==
  LET p == bool_deserialize(data)
  IN IF ~IsOk(p) THEN p
     ELSE IF ~p.value THEN Ok(None, p.data)
     ELSE LET r == Deserialize(t, p.data)
          IN IF ~IsOk(r) THEN r ELSE Ok(Some(r.value), r.data)

(***************************************************************************)
(* Tagged unions, bit-flag sets and plain structs declared with            *)
(* proto_byte_enum!, proto_varint_enum!, proto_int_enum!, proto_str_enum!, *)
(* proto_byte_flag! and __protocol_body_def_helper!.  The tables list the  *)
(* declarations in source order; the discriminant of a string enum is the  *)
(* sequence of the bytes of its text.                                      *)
(***************************************************************************)
ProtoEnums ==
  [
    HandshakeNextState |-> [name |-> "HandshakeNextState", kind |-> "byte",
     variants |-> <<[id |-> 1, variant |-> "Status", body |-> ""],
        [id |-> 2, variant |-> "Login", body |-> ""]>>],
    CardinalDirection |-> [name |-> "CardinalDirection", kind |-> "byte",
     variants |-> <<[id |-> 0, variant |-> "South", body |-> ""],
        [id |-> 1, variant |-> "West", body |-> ""],
        [id |-> 2, variant |-> "North", body |-> ""],
        [id |-> 3, variant |-> "East", body |-> ""]>>],
    EntityAnimationKind |-> [name |-> "EntityAnimationKind", kind |-> "byte",
     variants |-> <<[id |-> 0, variant |-> "SwingMainArm", body |-> ""],
        [id |-> 1, variant |-> "TakeDamage", body |-> ""],
        [id |-> 2, variant |-> "LeaveBed", body |-> ""],
        [id |-> 3, variant |-> "SwingOffHand", body |-> ""],
        [id |-> 4, variant |-> "CriticalEffect", body |-> ""],
        [id |-> 5, variant |-> "MagicCriticalEffect", body |-> ""]>>],
    StatisticCategory |-> [name |-> "StatisticCategory", kind |-> "varint",
     variants |-> <<[id |-> 0, variant |-> "Mined", body |-> "VarInt"],
        [id |-> 1, variant |-> "Crafted", body |-> "VarInt"],
        [id |-> 2, variant |-> "Used", body |-> "VarInt"],
        [id |-> 3, variant |-> "Broken", body |-> "VarInt"],
        [id |-> 4, variant |-> "PickedUp", body |-> "VarInt"],
        [id |-> 5, variant |-> "Dropped", body |-> "VarInt"],
        [id |-> 6, variant |-> "Killed", body |-> "VarInt"],
        [id |-> 7, variant |-> "KilledBy", body |-> "VarInt"],
        [id |-> 8, variant |-> "Custom", body |-> "StatisticKind"]>>],
    StatisticKind |-> [name |-> "StatisticKind", kind |-> "varint",
     variants |-> <<[id |-> 0, variant |-> "LeaveGame", body |-> ""],
        [id |-> 1, variant |-> "PlayOneMinute", body |-> ""],
        [id |-> 2, variant |-> "TimeSinceDeath", body |-> ""],
        [id |-> 3, variant |-> "SneakTime", body |-> ""],
        [id |-> 4, variant |-> "WealkOneCm", body |-> ""],
        [id |-> 5, variant |-> "CrouchOneCm", body |-> ""],
        [id |-> 6, variant |-> "SprintOneCm", body |-> ""],
        [id |-> 7, variant |-> "SwimOneCm", body |-> ""],
        [id |-> 8, variant |-> "FallOneCm", body |-> ""],
        [id |-> 9, variant |-> "ClimbOneCm", body |-> ""],
        [id |-> 10, variant |-> "FlyOneCm", body |-> ""],
        [id |-> 11, variant |-> "DiveOneCm", body |-> ""],
        [id |-> 12, variant |-> "MinecartOneCm", body |-> ""],
        [id |-> 13, variant |-> "BoatOneCm", body |-> ""],
        [id |-> 14, variant |-> "PigOneCm", body |-> ""],
        [id |-> 15, variant |-> "HorseOneCm", body |-> ""],
        [id |-> 16, variant |-> "AviateOneCm", body |-> ""],
        [id |-> 17, variant |-> "Jumps", body |-> ""],
        [id |-> 18, variant |-> "Drops", body |-> ""],
        [id |-> 19, variant |-> "DamageDealt", body |-> ""],
        [id |-> 20, variant |-> "DamageTaken", body |-> ""],
        [id |-> 21, variant |-> "Deaths", body |-> ""],
        [id |-> 22, variant |-> "MobKills", body |-> ""],
        [id |-> 23, variant |-> "AnimalsBread", body |-> ""],
        [id |-> 24, variant |-> "PlayerKills", body |-> ""],
        [id |-> 25, variant |-> "FishCaught", body |-> ""],
        [id |-> 26, variant |-> "TalkedToVillager", body |-> ""],
        [id |-> 27, variant |-> "TradedWithVillager", body |-> ""],
        [id |-> 28, variant |-> "EatCakeSlice", body |-> ""],
        [id |-> 29, variant |-> "FillCauldron", body |-> ""],
        [id |-> 30, variant |-> "UseCauldron", body |-> ""],
        [id |-> 31, variant |-> "CleanArmor", body |-> ""],
        [id |-> 32, variant |-> "CleanBanner", body |-> ""],
        [id |-> 33, variant |-> "InteractWithBrewingStand", body |-> ""],
        [id |-> 34, variant |-> "InteractWithBeaccon", body |-> ""],
        [id |-> 35, variant |-> "InspectDropper", body |-> ""],
        [id |-> 36, variant |-> "InspectHopper", body |-> ""],
        [id |-> 37, variant |-> "InspectDispenser", body |-> ""],
        [id |-> 38, variant |-> "PlayNoteBlock", body |-> ""],
        [id |-> 39, variant |-> "TuneNoteBlock", body |-> ""],
        [id |-> 40, variant |-> "PotFlower", body |-> ""],
        [id |-> 41, variant |-> "TriggerTrappedChest", body |-> ""],
        [id |-> 42, variant |-> "OpenEnderChest", body |-> ""],
        [id |-> 43, variant |-> "EnchantItem", body |-> ""],
        [id |-> 44, variant |-> "PlayRecord", body |-> ""],
        [id |-> 45, variant |-> "InteractWithFurnace", body |-> ""],
        [id |-> 46, variant |-> "InteractWithCraftingTable", body |-> ""],
        [id |-> 47, variant |-> "OpenChest", body |-> ""],
        [id |-> 48, variant |-> "SleepInBed", body |-> ""],
        [id |-> 49, variant |-> "OpenShulkerBox", body |-> ""]>>],
    DiggingStatus |-> [name |-> "DiggingStatus", kind |-> "byte",
     variants |-> <<[id |-> 0, variant |-> "Started", body |-> ""],
        [id |-> 1, variant |-> "Cancelled", body |-> ""],
        [id |-> 2, variant |-> "Finished", body |-> ""]>>],
    BlockEntityDataAction |-> [name |-> "BlockEntityDataAction", kind |-> "byte",
     variants |-> <<[id |-> 1, variant |-> "SetMobSpawnerData", body |-> ""],
        [id |-> 2, variant |-> "SetCommandBlockText", body |-> ""],
        [id |-> 3, variant |-> "SetBeaconLevelAndPower", body |-> ""],
        [id |-> 4, variant |-> "SetMobHeadRotationAndSkin", body |-> ""],
        [id |-> 5, variant |-> "DeclareConduit", body |-> ""],
        [id |-> 6, variant |-> "SetBannerColorAndPatterns", body |-> ""],
        [id |-> 7, variant |-> "SetStructureTileEntityData", body |-> ""],
        [id |-> 8, variant |-> "SetEndGatewayDestination", body |-> ""],
        [id |-> 9, variant |-> "SetSignText", body |-> ""],
        [id |-> 11, variant |-> "DeclareBed", body |-> ""],
        [id |-> 12, variant |-> "SetJigsawBlockData", body |-> ""],
        [id |-> 13, variant |-> "SetCampfireItems", body |-> ""],
        [id |-> 14, variant |-> "BeehiveInformation", body |-> ""]>>],
    Difficulty |-> [name |-> "Difficulty", kind |-> "byte",
     variants |-> <<[id |-> 0, variant |-> "Peaceful", body |-> ""],
        [id |-> 1, variant |-> "Easy", body |-> ""],
        [id |-> 2, variant |-> "Normal", body |-> ""],
        [id |-> 3, variant |-> "Hard", body |-> ""]>>],
    ChatPosition |-> [name |-> "ChatPosition", kind |-> "byte",
     variants |-> <<[id |-> 0, variant |-> "ChatBox", body |-> ""],
        [id |-> 1, variant |-> "SystemMessage", body |-> ""],
        [id |-> 2, variant |-> "Hotbar", body |-> ""]>>],
    BossBarAction |-> [name |-> "BossBarAction", kind |-> "varint",
     variants |-> <<[id |-> 0, variant |-> "Add", body |-> "BossBarAddSpec"],
        [id |-> 1, variant |-> "Remove", body |-> ""],
        [id |-> 2, variant |-> "UpdateHealth", body |-> "BossBarUpdateHealthSpec"],
        [id |-> 3, variant |-> "UpdateTitle", body |-> "BossBarUpdateTitleSpec"],
        [id |-> 4, variant |-> "UpdateStyle", body |-> "BossBarUpdateStyleSpec"],
        [id |-> 5, variant |-> "UpdateFlags", body |-> "BossBarUpdateFlagsSpec"]>>],
    BossBarColor |-> [name |-> "BossBarColor", kind |-> "varint",
     variants |-> <<[id |-> 0, variant |-> "Pink", body |-> ""],
        [id |-> 1, variant |-> "Blue", body |-> ""],
        [id |-> 2, variant |-> "Red", body |-> ""],
        [id |-> 3, variant |-> "Green", body |-> ""],
        [id |-> 4, variant |-> "Yellow", body |-> ""],
        [id |-> 5, variant |-> "Purple", body |-> ""],
        [id |-> 6, variant |-> "White", body |-> ""]>>],
    BossBarDivision |-> [name |-> "BossBarDivision", kind |-> "varint",
     variants |-> <<[id |-> 0, variant |-> "NoDivision", body |-> ""],
        [id |-> 1, variant |-> "SixNotches", body |-> ""],
        [id |-> 2, variant |-> "TenNotches", body |-> ""],
        [id |-> 3, variant |-> "TwelveNotches", body |-> ""],
        [id |-> 4, variant |-> "TwentyNotches", body |-> ""]>>],
    SuggestionsTypeSpec |-> [name |-> "SuggestionsTypeSpec", kind |-> "str",
     variants |-> <<[id |-> <<109, 105, 110, 101, 99, 114, 97, 102, 116, 58, 97, 115, 107, 95, 115, 101, 114, 118, 101, 114>>, variant |-> "AskServer", body |-> ""],
        [id |-> <<109, 105, 110, 101, 99, 114, 97, 102, 116, 58, 97, 108, 108, 95, 114, 101, 99, 105, 112, 101, 115>>, variant |-> "AllRecipes", body |-> ""],
        [id |-> <<109, 105, 110, 101, 99, 114, 97, 102, 116, 58, 97, 118, 97, 105, 108, 97, 98, 108, 101, 95, 115, 111, 117, 110, 100, 115>>, variant |-> "AvailableSounds", body |-> ""],
        [id |-> <<109, 105, 110, 101, 99, 114, 97, 102, 116, 58, 115, 117, 109, 109, 111, 110, 97, 98, 108, 101, 95, 101, 110, 116, 105, 116, 105, 101, 115>>, variant |-> "SummonableEntities", body |-> ""]>>],
    CommandParserSpec |-> [name |-> "CommandParserSpec", kind |-> "str",
     variants |-> <<[id |-> <<98, 114, 105, 103, 97, 100, 105, 101, 114, 58, 98, 111, 111, 108>>, variant |-> "Bool", body |-> ""],
        [id |-> <<98, 114, 105, 103, 97, 100, 105, 101, 114, 58, 100, 111, 117, 98, 108, 101>>, variant |-> "Double", body |-> "DoubleParserProps"],
        [id |-> <<98, 114, 105, 103, 97, 100, 105, 101, 114, 58, 102, 108, 111, 97, 116>>, variant |-> "Float", body |-> "FloatParserProps"],
        [id |-> <<98, 114, 105, 103, 97, 100, 105, 101, 114, 58, 105, 110, 116, 101, 103, 101, 114>>, variant |-> "Integer", body |-> "IntegerParserProps"],
        [id |-> <<98, 114, 105, 103, 97, 100, 105, 101, 114, 58, 115, 116, 114, 105, 110, 103>>, variant |-> "StringParser", body |-> "StringParserMode"],
        [id |-> <<109, 105, 110, 101, 99, 114, 97, 102, 116, 58, 101, 110, 116, 105, 116, 121>>, variant |-> "Entity", body |-> "EntityParserFlags"],
        [id |-> <<109, 105, 110, 101, 99, 114, 97, 102, 116, 58, 103, 97, 109, 101, 95, 112, 114, 111, 102, 105, 108, 101>>, variant |-> "GameProfile", body |-> ""],
        [id |-> <<109, 105, 110, 101, 99, 114, 97, 102, 116, 58, 98, 108, 111, 99, 107, 95, 112, 111, 115>>, variant |-> "BlockPosition", body |-> ""],
        [id |-> <<109, 105, 110, 101, 99, 114, 97, 102, 116, 58, 99, 111, 108, 117, 109, 110, 95, 112, 111, 115>>, variant |-> "ColumnPosition", body |-> ""],
        [id |-> <<109, 105, 110, 101, 99, 114, 97, 102, 116, 58, 118, 101, 99, 51>>, variant |-> "Vec3", body |-> ""],
        [id |-> <<109, 105, 110, 101, 99, 114, 97, 102, 116, 58, 118, 101, 99, 50>>, variant |-> "Vec2", body |-> ""],
        [id |-> <<109, 105, 110, 101, 99, 114, 97, 102, 116, 58, 98, 108, 111, 99, 107, 95, 115, 116, 97, 116, 101>>, variant |-> "BlockState", body |-> ""],
        [id |-> <<109, 105, 110, 101, 99, 114, 97, 102, 116, 58, 98, 108, 111, 99, 107, 95, 112, 114, 101, 100, 105, 99, 97, 116, 101>>, variant |-> "BlockPredicate", body |-> ""],
        [id |-> <<109, 105, 110, 101, 99, 114, 97, 102, 116, 58, 105, 116, 101, 109, 95, 115, 116, 97, 99, 107>>, variant |-> "ItemStack", body |-> ""],
        [id |-> <<109, 105, 110, 101, 99, 114, 97, 102, 116, 58, 105, 116, 101, 109, 95, 112, 114, 101, 100, 105, 99, 97, 116, 101>>, variant |-> "ItemPredicate", body |-> ""],
        [id |-> <<109, 105, 110, 101, 99, 114, 97, 102, 116, 58, 99, 111, 108, 111, 114>>, variant |-> "Color", body |-> ""],
        [id |-> <<109, 105, 110, 101, 99, 114, 97, 102, 116, 58, 99, 111, 109, 112, 111, 110, 101, 110, 116>>, variant |-> "Component", body |-> ""],
        [id |-> <<109, 105, 110, 101, 99, 114, 97, 102, 116, 58, 109, 101, 115, 115, 97, 103, 101>>, variant |-> "Message", body |-> ""],
        [id |-> <<109, 105, 110, 101, 99, 114, 97, 102, 116, 58, 110, 98, 116>>, variant |-> "Nbt", body |-> ""],
        [id |-> <<109, 105, 110, 101, 99, 114, 97, 102, 116, 58, 110, 98, 116, 95, 112, 97, 116, 104>>, variant |-> "NbtPath", body |-> ""],
        [id |-> <<109, 105, 110, 101, 99, 114, 97, 102, 116, 58, 111, 98, 106, 101, 99, 116, 105, 118, 101>>, variant |-> "Objective", body |-> ""],
        [id |-> <<109, 105, 110, 101, 99, 114, 97, 102, 116, 58, 111, 98, 106, 101, 99, 116, 105, 118, 101, 95, 99, 114, 105, 116, 101, 114, 105, 97>>, variant |-> "ObjectiveCriteria", body |-> ""],
        [id |-> <<109, 105, 110, 101, 99, 114, 97, 102, 116, 58, 111, 112, 101, 114, 97, 116, 105, 111, 110>>, variant |-> "Operation", body |-> ""],
        [id |-> <<109, 105, 110, 101, 99, 114, 97, 102, 116, 58, 112, 97, 114, 116, 105, 99, 108, 101>>, variant |-> "Particle", body |-> ""],
        [id |-> <<109, 105, 110, 101, 99, 114, 97, 102, 116, 58, 114, 111, 116, 97, 116, 105, 111, 110>>, variant |-> "Rotation", body |-> ""],
        [id |-> <<109, 105, 110, 101, 99, 114, 97, 102, 116, 58, 115, 99, 111, 114, 101, 98, 111, 97, 114, 100, 95, 115, 108, 111, 116>>, variant |-> "ScoreboardSlot", body |-> ""],
        [id |-> <<109, 105, 110, 101, 99, 114, 97, 102, 116, 58, 115, 99, 111, 114, 101, 95, 104, 111, 108, 100, 101, 114>>, variant |-> "ScoreHolder", body |-> "ScoreHolderFlags"],
        [id |-> <<109, 105, 110, 101, 99, 114, 97, 102, 116, 58, 115, 119, 105, 122, 122, 108, 101>>, variant |-> "Swizzle", body |-> ""],
        [id |-> <<109, 105, 110, 101, 99, 114, 97, 102, 116, 58, 116, 101, 97, 109>>, variant |-> "Team", body |-> ""],
        [id |-> <<109, 105, 110, 101, 99, 114, 97, 102, 116, 58, 105, 116, 101, 109, 95, 115, 108, 111, 116>>, variant |-> "ItemSlot", body |-> ""],
        [id |-> <<109, 105, 110, 101, 99, 114, 97, 102, 116, 58, 114, 101, 115, 111, 117, 114, 99, 101, 95, 108, 111, 99, 97, 116, 105, 111, 110>>, variant |-> "ResourceLocation", body |-> ""],
        [id |-> <<109, 105, 110, 101, 99, 114, 97, 102, 116, 58, 109, 111, 98, 95, 101, 102, 102, 101, 99, 116>>, variant |-> "MobEffect", body |-> ""],
        [id |-> <<109, 105, 110, 101, 99, 114, 97, 102, 116, 58, 102, 117, 110, 99, 116, 105, 111, 110>>, variant |-> "Function", body |-> ""],
        [id |-> <<109, 105, 110, 101, 99, 114, 97, 102, 116, 58, 101, 110, 116, 105, 116, 121, 95, 97, 110, 99, 104, 111, 114>>, variant |-> "EntityAnchor", body |-> ""],
        [id |-> <<109, 105, 110, 101, 99, 114, 97, 102, 116, 58, 114, 97, 110, 103, 101>>, variant |-> "Range", body |-> "RangeParserProps"],
        [id |-> <<109, 105, 110, 101, 99, 114, 97, 102, 116, 58, 105, 110, 116, 95, 114, 97, 110, 103, 101>>, variant |-> "IntRange", body |-> ""],
        [id |-> <<109, 105, 110, 101, 99, 114, 97, 102, 116, 58, 102, 108, 111, 97, 116, 95, 114, 97, 110, 103, 101>>, variant |-> "FloatRange", body |-> ""],
        [id |-> <<109, 105, 110, 101, 99, 114, 97, 102, 116, 58, 105, 116, 101, 109, 95, 101, 110, 99, 104, 97, 110, 116, 109, 101, 110, 116>>, variant |-> "ItemEnchantment", body |-> ""],
        [id |-> <<109, 105, 110, 101, 99, 114, 97, 102, 116, 58, 101, 110, 116, 105, 116, 121, 95, 115, 117, 109, 109, 111, 110>>, variant |-> "EntitySummon", body |-> ""],
        [id |-> <<109, 105, 110, 101, 99, 114, 97, 102, 116, 58, 100, 105, 109, 101, 110, 115, 105, 111, 110>>, variant |-> "Dimension", body |-> ""],
        [id |-> <<109, 105, 110, 101, 99, 114, 97, 102, 116, 58, 117, 117, 105, 100>>, variant |-> "UUID", body |-> ""],
        [id |-> <<109, 105, 110, 101, 99, 114, 97, 102, 116, 58, 110, 98, 116, 95, 116, 97, 103>>, variant |-> "NbtTag", body |-> ""],
        [id |-> <<109, 105, 110, 101, 99, 114, 97, 102, 116, 58, 110, 98, 116, 95, 99, 111, 109, 112, 111, 117, 110, 100, 95, 116, 97, 103>>, variant |-> "NbtCompoundTag", body |-> ""],
        [id |-> <<109, 105, 110, 101, 99, 114, 97, 102, 116, 58, 116, 105, 109, 101>>, variant |-> "Time", body |-> ""]>>],
    StringParserMode |-> [name |-> "StringParserMode", kind |-> "varint",
     variants |-> <<[id |-> 0, variant |-> "SingleWord", body |-> ""],
        [id |-> 1, variant |-> "QuotablePharse", body |-> ""],
        [id |-> 2, variant |-> "GreedyPhrase", body |-> ""]>>],
    TeamAction |-> [name |-> "TeamAction", kind |-> "byte",
     variants |-> <<[id |-> 0, variant |-> "Create", body |-> "TeamActionCreateSpec"],
        [id |-> 1, variant |-> "Remove", body |-> ""],
        [id |-> 2, variant |-> "UpdateInfo", body |-> "TeamActionUpdateInfoSpec"],
        [id |-> 3, variant |-> "AddPlayers", body |-> "TeamActionPlayerList"],
        [id |-> 4, variant |-> "RemovePlayers", body |-> "TeamActionPlayerList"]>>],
    TeamTagNameVisibility |-> [name |-> "TeamTagNameVisibility", kind |-> "str",
     variants |-> <<[id |-> <<97, 108, 119, 97, 121, 115>>, variant |-> "Always", body |-> ""],
        [id |-> <<104, 105, 100, 101, 70, 111, 114, 79, 116, 104, 101, 114, 84, 101, 97, 109, 115>>, variant |-> "HideForOtherTeams", body |-> ""],
        [id |-> <<104, 105, 100, 101, 70, 111, 114, 79, 119, 110, 84, 101, 97, 109>>, variant |-> "HideForOwnTeam", body |-> ""],
        [id |-> <<110, 101, 118, 101, 114>>, variant |-> "Never", body |-> ""]>>],
    TeamCollisionRule |-> [name |-> "TeamCollisionRule", kind |-> "str",
     variants |-> <<[id |-> <<97, 108, 119, 97, 121, 115>>, variant |-> "Always", body |-> ""],
        [id |-> <<112, 117, 115, 104, 70, 111, 114, 79, 116, 104, 101, 114, 84, 101, 97, 109, 115>>, variant |-> "PushForOtherTeams", body |-> ""],
        [id |-> <<112, 117, 115, 104, 79, 119, 110, 84, 101, 97, 109>>, variant |-> "PushOwnTeam", body |-> ""],
        [id |-> <<110, 101, 118, 101, 114>>, variant |-> "Never", body |-> ""]>>],
    UpdateScoreAction |-> [name |-> "UpdateScoreAction", kind |-> "byte",
     variants |-> <<[id |-> 0, variant |-> "Upsert", body |-> "VarInt"],
        [id |-> 1, variant |-> "Remove", body |-> ""]>>],
    TitleActionSpec |-> [name |-> "TitleActionSpec", kind |-> "varint",
     variants |-> <<[id |-> 0, variant |-> "SetTitle", body |-> "Chat"],
        [id |-> 1, variant |-> "SetSubtitle", body |-> "Chat"],
        [id |-> 2, variant |-> "SetActionBar", body |-> "Chat"],
        [id |-> 3, variant |-> "SetTimesAndDisplay", body |-> "TitleTimesSpec"],
        [id |-> 4, variant |-> "Hide", body |-> ""],
        [id |-> 5, variant |-> "Reset", body |-> ""]>>],
    SoundCategory |-> [name |-> "SoundCategory", kind |-> "varint",
     variants |-> <<[id |-> 0, variant |-> "Master", body |-> ""],
        [id |-> 1, variant |-> "Music", body |-> ""],
        [id |-> 2, variant |-> "Records", body |-> ""],
        [id |-> 3, variant |-> "Weather", body |-> ""],
        [id |-> 4, variant |-> "Block", body |-> ""],
        [id |-> 5, variant |-> "Hostile", body |-> ""],
        [id |-> 6, variant |-> "Neutral", body |-> ""],
        [id |-> 7, variant |-> "Player", body |-> ""],
        [id |-> 8, variant |-> "Ambient", body |-> ""],
        [id |-> 9, variant |-> "Voice", body |-> ""]>>],
    GameMode |-> [name |-> "GameMode", kind |-> "byte",
     variants |-> <<[id |-> 0, variant |-> "Survival", body |-> ""],
        [id |-> 1, variant |-> "Creative", body |-> ""],
        [id |-> 2, variant |-> "Adventure", body |-> ""],
        [id |-> 3, variant |-> "Spectator", body |-> ""]>>],
    WinGameAction |-> [name |-> "WinGameAction", kind |-> "byte",
     variants |-> <<[id |-> 0, variant |-> "Respawn", body |-> ""],
        [id |-> 1, variant |-> "RollCreditsAndRespawn", body |-> ""]>>],
    DemoEvent |-> [name |-> "DemoEvent", kind |-> "byte",
     variants |-> <<[id |-> 0, variant |-> "ShowWelcomeScreen", body |-> ""],
        [id |-> 101, variant |-> "TellMovementControls", body |-> ""],
        [id |-> 102, variant |-> "TellJumpControl", body |-> ""],
        [id |-> 103, variant |-> "TellInventoryControl", body |-> ""],
        [id |-> 104, variant |-> "EndDemo", body |-> ""]>>],
    RespawnRequestType |-> [name |-> "RespawnRequestType", kind |-> "byte",
     variants |-> <<[id |-> 0, variant |-> "Screen", body |-> ""],
        [id |-> 1, variant |-> "Immediate", body |-> ""]>>],
    Dimension |-> [name |-> "Dimension", kind |-> "int",
     variants |-> <<[id |-> -1, variant |-> "Nether", body |-> ""],
        [id |-> 0, variant |-> "Overworld", body |-> ""],
        [id |-> 1, variant |-> "End", body |-> ""]>>],
    MapIconType |-> [name |-> "MapIconType", kind |-> "varint",
     variants |-> <<[id |-> 0, variant |-> "WhiteArrow", body |-> ""],
        [id |-> 1, variant |-> "GreenArrow", body |-> ""],
        [id |-> 2, variant |-> "RedArrow", body |-> ""],
        [id |-> 3, variant |-> "BlueArrow", body |-> ""],
        [id |-> 4, variant |-> "WhiteCross", body |-> ""],
        [id |-> 5, variant |-> "RedPointer", body |-> ""],
        [id |-> 6, variant |-> "WhiteCircle", body |-> ""],
        [id |-> 7, variant |-> "SmallWhiteCircle", body |-> ""],
        [id |-> 8, variant |-> "Mansion", body |-> ""],
        [id |-> 9, variant |-> "Temple", body |-> ""],
        [id |-> 10, variant |-> "WhiteBanner", body |-> ""],
        [id |-> 11, variant |-> "OrangeBanner", body |-> ""],
        [id |-> 12, variant |-> "MagentaBanner", body |-> ""],
        [id |-> 13, variant |-> "YellowBanner", body |-> ""],
        [id |-> 14, variant |-> "LimeBanner", body |-> ""],
        [id |-> 15, variant |-> "PinkBanner", body |-> ""],
        [id |-> 16, variant |-> "GrayBanner", body |-> ""],
        [id |-> 17, variant |-> "LightGrayBanner", body |-> ""],
        [id |-> 18, variant |-> "CyanBanner", body |-> ""],
        [id |-> 19, variant |-> "PurpleBanner", body |-> ""],
        [id |-> 20, variant |-> "BlueBanner", body |-> ""],
        [id |-> 21, variant |-> "BrownBanner", body |-> ""],
        [id |-> 22, variant |-> "GreenBanner", body |-> ""],
        [id |-> 23, variant |-> "RedBanner", body |-> ""],
        [id |-> 24, variant |-> "BlackBanner", body |-> ""],
        [id |-> 25, variant |-> "TreasureMarker", body |-> ""]>>],
    Hand |-> [name |-> "Hand", kind |-> "varint",
     variants |-> <<[id |-> 0, variant |-> "MainHand", body |-> ""],
        [id |-> 1, variant |-> "OffHand", body |-> ""]>>],
    WindowType |-> [name |-> "WindowType", kind |-> "varint",
     variants |-> <<[id |-> 0, variant |-> "GenericOneRow", body |-> ""],
        [id |-> 1, variant |-> "GenericTwoRow", body |-> ""],
        [id |-> 2, variant |-> "GenericThreeRow", body |-> ""],
        [id |-> 3, variant |-> "GenericFourRow", body |-> ""],
        [id |-> 4, variant |-> "GenericFiveRow", body |-> ""],
        [id |-> 5, variant |-> "GenericSixRow", body |-> ""],
        [id |-> 6, variant |-> "GenericSquare", body |-> ""],
        [id |-> 7, variant |-> "Anvil", body |-> ""],
        [id |-> 8, variant |-> "Beacon", body |-> ""],
        [id |-> 9, variant |-> "BlastFurnace", body |-> ""],
        [id |-> 10, variant |-> "BrewingStand", body |-> ""],
        [id |-> 11, variant |-> "CraftingTable", body |-> ""],
        [id |-> 12, variant |-> "EnchantmentTable", body |-> ""],
        [id |-> 13, variant |-> "Furnace", body |-> ""],
        [id |-> 14, variant |-> "Grindstone", body |-> ""],
        [id |-> 15, variant |-> "Hopper", body |-> ""],
        [id |-> 16, variant |-> "Lectern", body |-> ""],
        [id |-> 17, variant |-> "Loom", body |-> ""],
        [id |-> 18, variant |-> "Merchant", body |-> ""],
        [id |-> 19, variant |-> "ShulkerBox", body |-> ""],
        [id |-> 20, variant |-> "Smoker", body |-> ""],
        [id |-> 21, variant |-> "Cartography", body |-> ""],
        [id |-> 22, variant |-> "StoneCutter", body |-> ""]>>],
    CombatEvent |-> [name |-> "CombatEvent", kind |-> "varint",
     variants |-> <<[id |-> 0, variant |-> "Enter", body |-> ""],
        [id |-> 1, variant |-> "End", body |-> "CombatEndSpec"],
        [id |-> 2, variant |-> "EntityDead", body |-> "CombatEntityDeadSpec"]>>],
    PlayerInfoActionList |-> [name |-> "PlayerInfoActionList", kind |-> "varint",
     variants |-> <<[id |-> 0, variant |-> "Add", body |-> "VarIntCountedArray<PlayerInfoAction<PlayerAddActionSpec>>"],
        [id |-> 1, variant |-> "UpdateGameMode", body |-> "VarIntCountedArray<PlayerInfoAction<GameMode>>"],
        [id |-> 2, variant |-> "UpdateLatency", body |-> "VarIntCountedArray<PlayerInfoAction<VarInt>>"],
        [id |-> 3, variant |-> "UpdateDisplayName", body |-> "VarIntCountedArray<PlayerInfoAction<Option<Chat>>>"],
        [id |-> 4, variant |-> "Remove", body |-> "VarIntCountedArray<UUID4>"]>>],
    FacePlayerKind |-> [name |-> "FacePlayerKind", kind |-> "varint",
     variants |-> <<[id |-> 0, variant |-> "Feet", body |-> ""],
        [id |-> 1, variant |-> "Eyes", body |-> ""]>>],
    EntityEffectKind |-> [name |-> "EntityEffectKind", kind |-> "byte",
     variants |-> <<[id |-> 1, variant |-> "Speed", body |-> ""],
        [id |-> 2, variant |-> "Slowness", body |-> ""],
        [id |-> 3, variant |-> "Haste", body |-> ""],
        [id |-> 4, variant |-> "MiningFatigue", body |-> ""],
        [id |-> 5, variant |-> "Strength", body |-> ""],
        [id |-> 6, variant |-> "InstantHealth", body |-> ""],
        [id |-> 7, variant |-> "InstantDamage", body |-> ""],
        [id |-> 8, variant |-> "JumpBoost", body |-> ""],
        [id |-> 9, variant |-> "Nausea", body |-> ""],
        [id |-> 10, variant |-> "Regeneration", body |-> ""],
        [id |-> 11, variant |-> "Resistance", body |-> ""],
        [id |-> 12, variant |-> "FireResistance", body |-> ""],
        [id |-> 13, variant |-> "WaterBreathing", body |-> ""],
        [id |-> 14, variant |-> "Invisibility", body |-> ""],
        [id |-> 15, variant |-> "Blindness", body |-> ""],
        [id |-> 16, variant |-> "NightVision", body |-> ""],
        [id |-> 17, variant |-> "Hunger", body |-> ""],
        [id |-> 18, variant |-> "Weakness", body |-> ""],
        [id |-> 19, variant |-> "Poison", body |-> ""],
        [id |-> 20, variant |-> "Wither", body |-> ""],
        [id |-> 21, variant |-> "HealthBoost", body |-> ""],
        [id |-> 22, variant |-> "Absorption", body |-> ""],
        [id |-> 23, variant |-> "Saturation", body |-> ""],
        [id |-> 24, variant |-> "Glowing", body |-> ""],
        [id |-> 25, variant |-> "Levetation", body |-> ""],
        [id |-> 26, variant |-> "Luck", body |-> ""],
        [id |-> 27, variant |-> "Unluck", body |-> ""],
        [id |-> 28, variant |-> "SlowFalling", body |-> ""],
        [id |-> 29, variant |-> "ConduitPower", body |-> ""],
        [id |-> 30, variant |-> "DolphinsGrace", body |-> ""],
        [id |-> 31, variant |-> "BadOmen", body |-> ""],
        [id |-> 32, variant |-> "HeroOfTheVillage", body |-> ""]>>],
    WorldBorderAction |-> [name |-> "WorldBorderAction", kind |-> "varint",
     variants |-> <<[id |-> 0, variant |-> "SetSize", body |-> "WorldBorderSetSizeSpec"],
        [id |-> 1, variant |-> "LerpSize", body |-> "WorldBorderLerpSizeSpec"],
        [id |-> 2, variant |-> "SetCenter", body |-> "WorldBorderSetCenterSpec"],
        [id |-> 3, variant |-> "Initialize", body |-> "WorldBorderInitiaializeSpec"],
        [id |-> 4, variant |-> "SetWarningTime", body |-> "WorldBorderWarningTimeSpec"],
        [id |-> 5, variant |-> "SetWarningBlocks", body |-> "WorldBorderWarningBlocksSpec"]>>],
    ScoreboardPosition |-> [name |-> "ScoreboardPosition", kind |-> "byte",
     variants |-> <<[id |-> 0, variant |-> "List", body |-> ""],
        [id |-> 1, variant |-> "Sidebar", body |-> ""],
        [id |-> 2, variant |-> "BelowName", body |-> ""],
        [id |-> 3, variant |-> "TeamSpecific", body |-> "i8"]>>],
    EquipmentSlot |-> [name |-> "EquipmentSlot", kind |-> "varint",
     variants |-> <<[id |-> 0, variant |-> "MainHand", body |-> ""],
        [id |-> 1, variant |-> "OffHand", body |-> ""],
        [id |-> 2, variant |-> "ArmorBoots", body |-> ""],
        [id |-> 3, variant |-> "ArmorLeggings", body |-> ""],
        [id |-> 4, variant |-> "ArmorChestplate", body |-> ""],
        [id |-> 5, variant |-> "ArmorHelmet", body |-> ""]>>],
    ScoreboardObjectiveAction |-> [name |-> "ScoreboardObjectiveAction", kind |-> "byte",
     variants |-> <<[id |-> 0, variant |-> "Create", body |-> "ScoreboardObjectiveSpec"],
        [id |-> 1, variant |-> "Remove", body |-> ""],
        [id |-> 2, variant |-> "UpdateText", body |-> "ScoreboardObjectiveSpec"]>>],
    ScoreboardObjectiveKind |-> [name |-> "ScoreboardObjectiveKind", kind |-> "varint",
     variants |-> <<[id |-> 0, variant |-> "Integer", body |-> ""],
        [id |-> 1, variant |-> "Hearts", body |-> ""]>>],
    AdvancementFrameType |-> [name |-> "AdvancementFrameType", kind |-> "varint",
     variants |-> <<[id |-> 0, variant |-> "Task", body |-> ""],
        [id |-> 1, variant |-> "Challenge", body |-> ""],
        [id |-> 2, variant |-> "Goal", body |-> ""]>>],
    EntityPropertyModifierOperation |-> [name |-> "EntityPropertyModifierOperation", kind |-> "byte",
     variants |-> <<[id |-> 0, variant |-> "AddSubtractAmount", body |-> ""],
        [id |-> 1, variant |-> "AddSubtractAmountPercentOfCurrent", body |-> ""],
        [id |-> 2, variant |-> "MultiplyByAmountPercent", body |-> ""]>>],
    ClientStatusAction |-> [name |-> "ClientStatusAction", kind |-> "varint",
     variants |-> <<[id |-> 0, variant |-> "PerformRespawn", body |-> ""],
        [id |-> 1, variant |-> "RequestStats", body |-> ""]>>],
    ClientChatMode |-> [name |-> "ClientChatMode", kind |-> "varint",
     variants |-> <<[id |-> 0, variant |-> "Enabled", body |-> ""],
        [id |-> 1, variant |-> "CommandsOnly", body |-> ""],
        [id |-> 2, variant |-> "Hidden", body |-> ""]>>],
    ClientMainHand |-> [name |-> "ClientMainHand", kind |-> "varint",
     variants |-> <<[id |-> 0, variant |-> "Left", body |-> ""],
        [id |-> 1, variant |-> "Right", body |-> ""]>>],
    InventoryOperationMode |-> [name |-> "InventoryOperationMode", kind |-> "varint",
     variants |-> <<[id |-> 0, variant |-> "MouseClick", body |-> ""],
        [id |-> 1, variant |-> "ShiftClick", body |-> ""],
        [id |-> 2, variant |-> "NumberClick", body |-> ""],
        [id |-> 3, variant |-> "MiddleClick", body |-> ""],
        [id |-> 4, variant |-> "DropClick", body |-> ""],
        [id |-> 5, variant |-> "Drag", body |-> ""],
        [id |-> 6, variant |-> "DoubleClick", body |-> ""]>>],
    InteractKind |-> [name |-> "InteractKind", kind |-> "varint",
     variants |-> <<[id |-> 0, variant |-> "Interact", body |-> "Hand"],
        [id |-> 1, variant |-> "Attack", body |-> ""],
        [id |-> 2, variant |-> "InteractAt", body |-> "InteractAtSpec"]>>],
    PlayerDiggingStatus |-> [name |-> "PlayerDiggingStatus", kind |-> "varint",
     variants |-> <<[id |-> 0, variant |-> "Started", body |-> ""],
        [id |-> 1, variant |-> "Cancelled", body |-> ""],
        [id |-> 2, variant |-> "Finished", body |-> ""],
        [id |-> 3, variant |-> "DropStack", body |-> ""],
        [id |-> 4, variant |-> "DropItem", body |-> ""],
        [id |-> 5, variant |-> "ShootArrowOrFishEating", body |-> ""],
        [id |-> 6, variant |-> "SwapItemInHand", body |-> ""]>>],
    DiggingFace |-> [name |-> "DiggingFace", kind |-> "byte",
     variants |-> <<[id |-> 0, variant |-> "Bottom", body |-> ""],
        [id |-> 1, variant |-> "Top", body |-> ""],
        [id |-> 2, variant |-> "North", body |-> ""],
        [id |-> 3, variant |-> "South", body |-> ""],
        [id |-> 4, variant |-> "West", body |-> ""],
        [id |-> 5, variant |-> "East", body |-> ""]>>],
    EntityActionKind |-> [name |-> "EntityActionKind", kind |-> "varint",
     variants |-> <<[id |-> 0, variant |-> "StartSneaking", body |-> ""],
        [id |-> 1, variant |-> "StopSneaking", body |-> ""],
        [id |-> 2, variant |-> "LeaveBed", body |-> ""],
        [id |-> 3, variant |-> "StartSprinting", body |-> ""],
        [id |-> 4, variant |-> "StopSprinting", body |-> ""],
        [id |-> 5, variant |-> "StartJumpWithHorse", body |-> ""],
        [id |-> 6, variant |-> "StopJumpWithHorse", body |-> ""],
        [id |-> 7, variant |-> "OpenHorseInventory", body |-> ""],
        [id |-> 8, variant |-> "StartFlyingWithElytra", body |-> ""]>>],
    RecipeBookStatus |-> [name |-> "RecipeBookStatus", kind |-> "varint",
     variants |-> <<[id |-> 0, variant |-> "Displayed", body |-> "String"],
        [id |-> 1, variant |-> "States", body |-> "RecipeBookStates"]>>],
    ResourcePackStatus |-> [name |-> "ResourcePackStatus", kind |-> "varint",
     variants |-> <<[id |-> 0, variant |-> "Loaded", body |-> ""],
        [id |-> 1, variant |-> "Declined", body |-> ""],
        [id |-> 2, variant |-> "FailedDownload", body |-> ""],
        [id |-> 3, variant |-> "Accepted", body |-> ""]>>],
    AdvancementTabAction |-> [name |-> "AdvancementTabAction", kind |-> "varint",
     variants |-> <<[id |-> 0, variant |-> "Opened", body |-> "String"],
        [id |-> 1, variant |-> "Closed", body |-> ""]>>],
    CommandBlockMode |-> [name |-> "CommandBlockMode", kind |-> "varint",
     variants |-> <<[id |-> 0, variant |-> "Sequence", body |-> ""],
        [id |-> 1, variant |-> "Auto", body |-> ""],
        [id |-> 2, variant |-> "Redstone", body |-> ""]>>],
    UpdateStructureBlockAction |-> [name |-> "UpdateStructureBlockAction", kind |-> "varint",
     variants |-> <<[id |-> 0, variant |-> "UpdateData", body |-> ""],
        [id |-> 1, variant |-> "SaveStructure", body |-> ""],
        [id |-> 2, variant |-> "LoadStructure", body |-> ""],
        [id |-> 3, variant |-> "DetectSize", body |-> ""]>>],
    UpdateStructureBlockMode |-> [name |-> "UpdateStructureBlockMode", kind |-> "varint",
     variants |-> <<[id |-> 0, variant |-> "Save", body |-> ""],
        [id |-> 1, variant |-> "Load", body |-> ""],
        [id |-> 2, variant |-> "Corner", body |-> ""],
        [id |-> 3, variant |-> "Data", body |-> ""]>>],
    UpdateStructureBlockMirror |-> [name |-> "UpdateStructureBlockMirror", kind |-> "varint",
     variants |-> <<[id |-> 0, variant |-> "NoMirror", body |-> ""],
        [id |-> 1, variant |-> "LeftRight", body |-> ""],
        [id |-> 2, variant |-> "FrontBack", body |-> ""]>>],
    UpdateStructureBlockRotation |-> [name |-> "UpdateStructureBlockRotation", kind |-> "varint",
     variants |-> <<[id |-> 0, variant |-> "NoRotation", body |-> ""],
        [id |-> 1, variant |-> "Clockwise90", body |-> ""],
        [id |-> 2, variant |-> "Clockwise180", body |-> ""],
        [id |-> 3, variant |-> "CounterClockwise90", body |-> ""]>>],
    Recipe |-> [name |-> "Recipe", kind |-> "str",
     variants |-> <<[id |-> <<109, 105, 110, 101, 99, 114, 97, 102, 116, 58, 99, 114, 97, 102, 116, 105, 110, 103, 95, 115, 104, 97, 112, 101, 108, 101, 115, 115>>, variant |-> "CraftingShapeless", body |-> "RecipeCraftingShapelessSpec"],
        [id |-> <<109, 105, 110, 101, 99, 114, 97, 102, 116, 58, 99, 114, 97, 102, 116, 105, 110, 103, 95, 115, 104, 97, 112, 101, 100>>, variant |-> "CraftingShaped", body |-> "RecipeCraftingShapedSpec"],
        [id |-> <<109, 105, 110, 101, 99, 114, 97, 102, 116, 58, 99, 114, 97, 102, 116, 105, 110, 103, 95, 115, 112, 101, 99, 105, 97, 108, 95, 97, 114, 109, 111, 114, 100, 121, 101>>, variant |-> "CraftingArmorDye", body |-> ""],
        [id |-> <<109, 105, 110, 101, 99, 114, 97, 102, 116, 58, 99, 114, 97, 102, 116, 105, 110, 103, 95, 115, 112, 101, 99, 105, 97, 108, 95, 98, 111, 111, 107, 99, 108, 111, 110, 105, 110, 103>>, variant |-> "CraftingBookCloning", body |-> ""],
        [id |-> <<109, 105, 110, 101, 99, 114, 97, 102, 116, 58, 99, 114, 97, 102, 116, 105, 110, 103, 95, 115, 112, 101, 99, 105, 97, 108, 95, 109, 97, 112, 99, 108, 111, 110, 105, 110, 103>>, variant |-> "CraftingMapCloning", body |-> ""],
        [id |-> <<109, 105, 110, 101, 99, 114, 97, 102, 116, 58, 99, 114, 97, 102, 116, 105, 110, 103, 95, 115, 112, 101, 99, 105, 97, 108, 95, 109, 97, 112, 101, 120, 116, 101, 110, 100, 105, 110, 103>>, variant |-> "CraftingMapExtending", body |-> ""],
        [id |-> <<109, 105, 110, 101, 99, 114, 97, 102, 116, 58, 99, 114, 97, 102, 116, 105, 110, 103, 95, 115, 112, 101, 99, 105, 97, 108, 95, 102, 105, 114, 101, 119, 111, 114, 107, 95, 114, 111, 99, 107, 101, 116>>, variant |-> "CraftingFireworkRocket", body |-> ""],
        [id |-> <<109, 105, 110, 101, 99, 114, 97, 102, 116, 58, 99, 114, 97, 102, 116, 105, 110, 103, 95, 115, 112, 101, 99, 105, 97, 108, 95, 102, 105, 114, 101, 119, 111, 114, 107, 95, 115, 116, 97, 114>>, variant |-> "CraftingFireworkStar", body |-> ""],
        [id |-> <<109, 105, 110, 101, 99, 114, 97, 102, 116, 58, 99, 114, 97, 102, 116, 105, 110, 103, 95, 115, 112, 101, 99, 105, 97, 108, 95, 102, 105, 114, 101, 119, 111, 114, 107, 95, 115, 116, 97, 114, 95, 102, 97, 100, 101>>, variant |-> "CraftingFireworkStarFade", body |-> ""],
        [id |-> <<109, 105, 110, 101, 99, 114, 97, 102, 116, 58, 99, 114, 97, 102, 116, 105, 110, 103, 95, 115, 112, 101, 99, 105, 97, 108, 95, 114, 101, 112, 97, 105, 114, 105, 116, 101, 109>>, variant |-> "CraftingRepairItem", body |-> ""],
        [id |-> <<109, 105, 110, 101, 99, 114, 97, 102, 116, 58, 99, 114, 97, 102, 116, 105, 110, 103, 95, 115, 112, 101, 99, 105, 97, 108, 95, 116, 105, 112, 112, 101, 100, 97, 114, 114, 111, 119>>, variant |-> "CraftingTippedArrow", body |-> ""],
        [id |-> <<109, 105, 110, 101, 99, 114, 97, 102, 116, 58, 99, 114, 97, 102, 116, 105, 110, 103, 95, 115, 112, 101, 99, 105, 97, 108, 95, 98, 97, 110, 110, 101, 114, 100, 117, 112, 108, 105, 99, 97, 116, 101>>, variant |-> "CraftingBannerDuplicate", body |-> ""],
        [id |-> <<109, 105, 110, 101, 99, 114, 97, 102, 116, 58, 99, 114, 97, 102, 116, 105, 110, 103, 95, 115, 112, 101, 99, 105, 97, 108, 95, 98, 97, 110, 110, 101, 114, 97, 100, 100, 112, 97, 116, 116, 101, 114, 110>>, variant |-> "CraftingBannerAddPattern", body |-> ""],
        [id |-> <<109, 105, 110, 101, 99, 114, 97, 102, 116, 58, 99, 114, 97, 102, 116, 105, 110, 103, 95, 115, 112, 101, 99, 105, 97, 108, 95, 115, 104, 105, 101, 108, 100, 100, 101, 99, 111, 114, 97, 116, 105, 111, 110>>, variant |-> "CraftingShieldDecoration", body |-> ""],
        [id |-> <<109, 105, 110, 101, 99, 114, 97, 102, 116, 58, 99, 114, 97, 102, 116, 105, 110, 103, 95, 115, 112, 101, 99, 105, 97, 108, 95, 115, 104, 117, 108, 107, 101, 114, 98, 111, 120, 99, 111, 108, 111, 114, 105, 110, 103>>, variant |-> "CraftingShulkerBoxColoring", body |-> ""],
        [id |-> <<109, 105, 110, 101, 99, 114, 97, 102, 116, 58, 99, 114, 97, 102, 116, 105, 110, 103, 95, 115, 112, 101, 99, 105, 97, 108, 95, 115, 117, 115, 112, 105, 99, 105, 111, 117, 115, 115, 116, 101, 119>>, variant |-> "CraftingSuspiciousStew", body |-> ""],
        [id |-> <<109, 105, 110, 101, 99, 114, 97, 102, 116, 58, 115, 109, 101, 108, 116, 105, 110, 103>>, variant |-> "Smelting", body |-> "RecipeSmeltingSpec"],
        [id |-> <<109, 105, 110, 101, 99, 114, 97, 102, 116, 58, 98, 108, 97, 115, 116, 105, 110, 103>>, variant |-> "Blasting", body |-> "RecipeSmeltingSpec"],
        [id |-> <<109, 105, 110, 101, 99, 114, 97, 102, 116, 58, 115, 109, 111, 107, 105, 110, 103>>, variant |-> "Smoking", body |-> "RecipeSmeltingSpec"],
        [id |-> <<109, 105, 110, 101, 99, 114, 97, 102, 116, 58, 99, 97, 109, 112, 102, 105, 114, 101, 95, 99, 111, 111, 107, 105, 110, 103>>, variant |-> "CampfireCooking", body |-> "RecipeSmeltingSpec"],
        [id |-> <<109, 105, 110, 101, 99, 114, 97, 102, 116, 58, 115, 116, 111, 110, 101, 99, 117, 116, 116, 105, 110, 103>>, variant |-> "StoneCutting", body |-> "RecipeStonecuttingSpec"]>>],
    RecipeUnlockAction |-> [name |-> "RecipeUnlockAction", kind |-> "varint",
     variants |-> <<[id |-> 0, variant |-> "Init", body |-> ""],
        [id |-> 1, variant |-> "Add", body |-> ""],
        [id |-> 2, variant |-> "Remove", body |-> ""]>>],
    EntityMetadataFieldData |-> [name |-> "EntityMetadataFieldData", kind |-> "varint",
     variants |-> <<[id |-> 0, variant |-> "Byte", body |-> "i8"],
        [id |-> 1, variant |-> "VarInt", body |-> "VarInt"],
        [id |-> 2, variant |-> "Float", body |-> "f32"],
        [id |-> 3, variant |-> "String", body |-> "String"],
        [id |-> 4, variant |-> "Chat", body |-> "Chat"],
        [id |-> 5, variant |-> "OptChat", body |-> "Option<Chat>"],
        [id |-> 6, variant |-> "Slot", body |-> "Option<Slot>"],
        [id |-> 7, variant |-> "Boolean", body |-> "bool"],
        [id |-> 8, variant |-> "Rotation", body |-> "EntityRotation"],
        [id |-> 9, variant |-> "Position", body |-> "IntPosition"],
        [id |-> 10, variant |-> "OptPosition", body |-> "Option<IntPosition>"],
        [id |-> 11, variant |-> "Direction", body |-> "EntityDirection"],
        [id |-> 12, variant |-> "OptUUID", body |-> "Option<UUID4>"],
        [id |-> 13, variant |-> "OptBlockId", body |-> "VarInt"],
        [id |-> 14, variant |-> "NBT", body |-> "NamedNbtTag"],
        [id |-> 15, variant |-> "Particle", body |-> "ParticleSpec"],
        [id |-> 16, variant |-> "VillagerData", body |-> "EntityVillagerData"],
        [id |-> 17, variant |-> "OptVarInt", body |-> "VarInt"],
        [id |-> 18, variant |-> "Pose", body |-> "EntityPose"]>>],
    EntityDirection |-> [name |-> "EntityDirection", kind |-> "varint",
     variants |-> <<[id |-> 0, variant |-> "Down", body |-> ""],
        [id |-> 1, variant |-> "Up", body |-> ""],
        [id |-> 2, variant |-> "North", body |-> ""],
        [id |-> 3, variant |-> "South", body |-> ""],
        [id |-> 4, variant |-> "West", body |-> ""],
        [id |-> 5, variant |-> "East", body |-> ""]>>],
    VillagerType |-> [name |-> "VillagerType", kind |-> "varint",
     variants |-> <<[id |-> 0, variant |-> "Desert", body |-> ""],
        [id |-> 1, variant |-> "Jungle", body |-> ""],
        [id |-> 2, variant |-> "Plains", body |-> ""],
        [id |-> 3, variant |-> "Savanna", body |-> ""],
        [id |-> 4, variant |-> "Snow", body |-> ""],
        [id |-> 5, variant |-> "Swamp", body |-> ""],
        [id |-> 6, variant |-> "Taiga", body |-> ""]>>],
    VillagerProfession |-> [name |-> "VillagerProfession", kind |-> "varint",
     variants |-> <<[id |-> 0, variant |-> "None", body |-> ""],
        [id |-> 1, variant |-> "Armorer", body |-> ""],
        [id |-> 2, variant |-> "Butcher", body |-> ""],
        [id |-> 3, variant |-> "Cartographer", body |-> ""],
        [id |-> 4, variant |-> "Cleric", body |-> ""],
        [id |-> 5, variant |-> "Farmer", body |-> ""],
        [id |-> 6, variant |-> "Fisherman", body |-> ""],
        [id |-> 7, variant |-> "Fletcher", body |-> ""],
        [id |-> 8, variant |-> "LeatherWorker", body |-> ""],
        [id |-> 9, variant |-> "Librarian", body |-> ""],
        [id |-> 10, variant |-> "Mason", body |-> ""],
        [id |-> 11, variant |-> "Nitwit", body |-> ""],
        [id |-> 12, variant |-> "Shepherd", body |-> ""],
        [id |-> 13, variant |-> "Toolsmith", body |-> ""],
        [id |-> 14, variant |-> "Weaponsmith", body |-> ""]>>],
    EntityPose |-> [name |-> "EntityPose", kind |-> "varint",
     variants |-> <<[id |-> 0, variant |-> "Standing", body |-> ""],
        [id |-> 1, variant |-> "FallFlying", body |-> ""],
        [id |-> 2, variant |-> "Sleeping", body |-> ""],
        [id |-> 3, variant |-> "Swimming", body |-> ""],
        [id |-> 4, variant |-> "SpinAttack", body |-> ""],
        [id |-> 5, variant |-> "Sneaking", body |-> ""],
        [id |-> 6, variant |-> "Dying", body |-> ""]>>],
    ParticleSpec |-> [name |-> "ParticleSpec", kind |-> "varint",
     variants |-> <<[id |-> 0, variant |-> "AmbientEntityEffect", body |-> ""],
        [id |-> 1, variant |-> "AngryVillager", body |-> ""],
        [id |-> 2, variant |-> "Barrier", body |-> ""],
        [id |-> 3, variant |-> "Block", body |-> "BlockParticleData"],
        [id |-> 4, variant |-> "Bubble", body |-> ""],
        [id |-> 5, variant |-> "Cloud", body |-> ""],
        [id |-> 6, variant |-> "Crit", body |-> ""],
        [id |-> 7, variant |-> "DamageIndicator", body |-> ""],
        [id |-> 8, variant |-> "DragonBreath", body |-> ""],
        [id |-> 9, variant |-> "DrippingLava", body |-> ""],
        [id |-> 10, variant |-> "FallingLava", body |-> ""],
        [id |-> 11, variant |-> "LandingLava", body |-> ""],
        [id |-> 12, variant |-> "DrippingWater", body |-> ""],
        [id |-> 13, variant |-> "FallingWater", body |-> ""],
        [id |-> 14, variant |-> "Dust", body |-> "DustParticleData"],
        [id |-> 15, variant |-> "Effect", body |-> ""],
        [id |-> 16, variant |-> "ElderGuardian", body |-> ""],
        [id |-> 17, variant |-> "EnchantedHit", body |-> ""],
        [id |-> 18, variant |-> "Enchant", body |-> ""],
        [id |-> 19, variant |-> "EndRod", body |-> ""],
        [id |-> 20, variant |-> "EntityEffect", body |-> ""],
        [id |-> 21, variant |-> "ExposionEmitter", body |-> ""],
        [id |-> 22, variant |-> "Explosion", body |-> ""],
        [id |-> 23, variant |-> "FallingDust", body |-> "DustParticleData"],
        [id |-> 24, variant |-> "Firework", body |-> ""],
        [id |-> 25, variant |-> "Fishing", body |-> ""],
        [id |-> 26, variant |-> "Flame", body |-> ""],
        [id |-> 27, variant |-> "Flash", body |-> ""],
        [id |-> 28, variant |-> "HappyVillager", body |-> ""],
        [id |-> 29, variant |-> "Composter", body |-> ""],
        [id |-> 30, variant |-> "Heart", body |-> ""],
        [id |-> 31, variant |-> "InstantEffect", body |-> ""],
        [id |-> 32, variant |-> "Item", body |-> "Option<Slot>"],
        [id |-> 33, variant |-> "ItemSlime", body |-> ""],
        [id |-> 34, variant |-> "ItemSnowball", body |-> ""],
        [id |-> 35, variant |-> "LargeSmoke", body |-> ""],
        [id |-> 36, variant |-> "Lava", body |-> ""],
        [id |-> 37, variant |-> "Mycelium", body |-> ""],
        [id |-> 38, variant |-> "Note", body |-> ""],
        [id |-> 39, variant |-> "Poof", body |-> ""],
        [id |-> 40, variant |-> "Portal", body |-> ""],
        [id |-> 41, variant |-> "Rain", body |-> ""],
        [id |-> 42, variant |-> "Smoke", body |-> ""],
        [id |-> 43, variant |-> "Sneeze", body |-> ""],
        [id |-> 44, variant |-> "Spit", body |-> ""],
        [id |-> 45, variant |-> "SquidInk", body |-> ""],
        [id |-> 46, variant |-> "SweepAttack", body |-> ""],
        [id |-> 47, variant |-> "TotemOfUndying", body |-> ""],
        [id |-> 48, variant |-> "Underwater", body |-> ""],
        [id |-> 49, variant |-> "Splash", body |-> ""],
        [id |-> 50, variant |-> "Witch", body |-> ""],
        [id |-> 51, variant |-> "BubblePop", body |-> ""],
        [id |-> 52, variant |-> "CurrentDown", body |-> ""],
        [id |-> 53, variant |-> "BubbleColumnUp", body |-> ""],
        [id |-> 54, variant |-> "Nautilus", body |-> ""],
        [id |-> 55, variant |-> "Dolphin", body |-> ""],
        [id |-> 56, variant |-> "CampfireCosySmoke", body |-> ""],
        [id |-> 57, variant |-> "CampfireSignalSmoke", body |-> ""],
        [id |-> 58, variant |-> "DrippingHoney", body |-> ""],
        [id |-> 59, variant |-> "FallingHoney", body |-> ""],
        [id |-> 60, variant |-> "LandingHoney", body |-> ""],
        [id |-> 61, variant |-> "FallingNectar", body |-> ""]>>]
  ]

ProtoFlags ==
  [
    BossBarFlags |-> [name |-> "BossBarFlags", kind |-> "byte",
     flags |-> <<[bit |-> 1, flag |-> "darken_sky"],
        [bit |-> 2, flag |-> "dragon_bar"],
        [bit |-> 4, flag |-> "create_fog"]>>],
    EntityParserFlags |-> [name |-> "EntityParserFlags", kind |-> "byte",
     flags |-> <<[bit |-> 1, flag |-> "single_target"],
        [bit |-> 2, flag |-> "players_only"]>>],
    ScoreHolderFlags |-> [name |-> "ScoreHolderFlags", kind |-> "byte",
     flags |-> <<[bit |-> 1, flag |-> "multiple"]>>],
    TeamFriendlyFlags |-> [name |-> "TeamFriendlyFlags", kind |-> "byte",
     flags |-> <<[bit |-> 1, flag |-> "allow_friendly_fire"],
        [bit |-> 2, flag |-> "show_invisible_teammates"]>>],
    PlayerAbilityFlags |-> [name |-> "PlayerAbilityFlags", kind |-> "byte",
     flags |-> <<[bit |-> 1, flag |-> "invulnerable"],
        [bit |-> 2, flag |-> "flying"],
        [bit |-> 4, flag |-> "allow_flying"],
        [bit |-> 8, flag |-> "instant_break"]>>],
    PositionAndLookFlags |-> [name |-> "PositionAndLookFlags", kind |-> "byte",
     flags |-> <<[bit |-> 1, flag |-> "x"],
        [bit |-> 2, flag |-> "y"],
        [bit |-> 4, flag |-> "z"],
        [bit |-> 8, flag |-> "y_rotation"],
        [bit |-> 16, flag |-> "x_rotation"]>>],
    EntityEffectFlags |-> [name |-> "EntityEffectFlags", kind |-> "byte",
     flags |-> <<[bit |-> 1, flag |-> "ambient"],
        [bit |-> 2, flag |-> "show_particles"],
        [bit |-> 4, flag |-> "show_icon"]>>],
    ClientDisplayedSkinParts |-> [name |-> "ClientDisplayedSkinParts", kind |-> "byte",
     flags |-> <<[bit |-> 1, flag |-> "cape_enabled"],
        [bit |-> 2, flag |-> "jacket_enabled"],
        [bit |-> 4, flag |-> "left_sleeve_enabled"],
        [bit |-> 8, flag |-> "right_sleeve_enabled"],
        [bit |-> 16, flag |-> "left_pants_leg_enabled"],
        [bit |-> 32, flag |-> "right_pant_legs_enabled"],
        [bit |-> 64, flag |-> "hat_enabled"]>>],
    ClientPlayerAbilities |-> [name |-> "ClientPlayerAbilities", kind |-> "byte",
     flags |-> <<[bit |-> 1, flag |-> "creative"],
        [bit |-> 2, flag |-> "flying"],
        [bit |-> 4, flag |-> "fly_enabled"],
        [bit |-> 8, flag |-> "damaged_disabled"]>>],
    SteerVehicleFlags |-> [name |-> "SteerVehicleFlags", kind |-> "byte",
     flags |-> <<[bit |-> 1, flag |-> "jump"],
        [bit |-> 2, flag |-> "unmount"]>>],
    CommandBlockFlags |-> [name |-> "CommandBlockFlags", kind |-> "byte",
     flags |-> <<[bit |-> 1, flag |-> "track_output"],
        [bit |-> 2, flag |-> "conditional"],
        [bit |-> 4, flag |-> "automatic"]>>],
    UpdateStructureBlockFlags |-> [name |-> "UpdateStructureBlockFlags", kind |-> "byte",
     flags |-> <<[bit |-> 1, flag |-> "ignore_entities"],
        [bit |-> 2, flag |-> "show_air"],
        [bit |-> 4, flag |-> "show_bounding_box"]>>]
  ]

ProtoStructs ==
  [
    Statistic |-> [name |-> "Statistic",
     fields |-> <<<<"kind", "StatisticCategory">>, <<"value", "VarInt">>>>],
    MultiBlockChangeRecord |-> [name |-> "MultiBlockChangeRecord",
     fields |-> <<<<"horizontal_position", "BlockChangeHorizontalPosition">>, <<"y_coordinate", "u8">>, <<"block_id", "VarInt">>>>],
    BossBarAddSpec |-> [name |-> "BossBarAddSpec",
     fields |-> <<<<"title", "Chat">>, <<"health", "f32">>, <<"color", "BossBarColor">>, <<"division", "BossBarDivision">>, <<"flags", "BossBarFlags">>>>],
    BossBarUpdateHealthSpec |-> [name |-> "BossBarUpdateHealthSpec",
     fields |-> <<<<"health", "f32">>>>],
    BossBarUpdateTitleSpec |-> [name |-> "BossBarUpdateTitleSpec",
     fields |-> <<<<"title", "String">>>>],
    BossBarUpdateStyleSpec |-> [name |-> "BossBarUpdateStyleSpec",
     fields |-> <<<<"color", "BossBarColor">>, <<"dividers", "BossBarDivision">>>>],
    BossBarUpdateFlagsSpec |-> [name |-> "BossBarUpdateFlagsSpec",
     fields |-> <<<<"flags", "BossBarFlags">>>>],
    TabCompleteMatch |-> [name |-> "TabCompleteMatch",
     fields |-> <<<<"match_", "String">>, <<"tooltip", "Option<Chat>">>>>],
    CommandLiteralNodeSpec |-> [name |-> "CommandLiteralNodeSpec",
     fields |-> <<<<"name", "String">>>>],
    RangeParserProps |-> [name |-> "RangeParserProps",
     fields |-> <<<<"decimal", "bool">>>>],
    TeamActionPlayerList |-> [name |-> "TeamActionPlayerList",
     fields |-> <<<<"entities", "VarIntCountedArray<TeamMember>">>>>],
    TeamActionCreateSpec |-> [name |-> "TeamActionCreateSpec",
     fields |-> <<<<"display_name", "Chat">>, <<"friendly_flags", "TeamFriendlyFlags">>, <<"tag_name_visibility", "TeamTagNameVisibility">>, <<"collision_rule", "TeamCollisionRule">>, <<"color", "VarInt">>, <<"prefix", "Chat">>, <<"suffix", "Chat">>, <<"entities", "VarIntCountedArray<TeamMember>">>>>],
    TeamActionUpdateInfoSpec |-> [name |-> "TeamActionUpdateInfoSpec",
     fields |-> <<<<"display_name", "Chat">>, <<"friendly_flags", "TeamFriendlyFlags">>, <<"tag_name_visibility", "TeamTagNameVisibility">>, <<"collision_rule", "TeamCollisionRule">>, <<"color", "VarInt">>, <<"prefix", "Chat">>, <<"suffix", "Chat">>>>],
    TitleTimesSpec |-> [name |-> "TitleTimesSpec",
     fields |-> <<<<"fade_in", "i32">>, <<"stay", "i32">>, <<"fade_out", "i32">>>>],
    ExplosionRecord |-> [name |-> "ExplosionRecord",
     fields |-> <<<<"x", "i8">>, <<"y", "i8">>, <<"z", "i8">>>>],
    MapIconSpec |-> [name |-> "MapIconSpec",
     fields |-> <<<<"kind", "MapIconType">>, <<"x", "i8">>, <<"z", "i8">>, <<"direction", "i8">>, <<"display_name", "Option<Chat>">>>>],
    MapColumnsSpec |-> [name |-> "MapColumnsSpec",
     fields |-> <<<<"columns", "u8">>, <<"rows", "u8">>, <<"x", "u8">>, <<"z", "u8">>, <<"data", "VarIntCountedArray<u8>">>>>],
    TradeSpec |-> [name |-> "TradeSpec",
     fields |-> <<<<"input_item_1", "Option<Slot>">>, <<"output_item", "Option<Slot>">>, <<"input_item_2", "Option<Slot>">>, <<"trade_disabled", "bool">>, <<"trade_uses", "i32">>, <<"max_trade_uses", "i32">>, <<"xp", "i32">>, <<"special_price", "i32">>, <<"price_multiplier", "f32">>, <<"demand", "i32">>>>],
    CombatEndSpec |-> [name |-> "CombatEndSpec",
     fields |-> <<<<"duration_ticks", "VarInt">>, <<"entity_id", "i32">>>>],
    CombatEntityDeadSpec |-> [name |-> "CombatEntityDeadSpec",
     fields |-> <<<<"player_id", "VarInt">>, <<"entity_id", "i32">>, <<"message", "Chat">>>>],
    PlayerAddActionSpec |-> [name |-> "PlayerAddActionSpec",
     fields |-> <<<<"name", "String">>, <<"properties", "VarIntCountedArray<PlayerAddProperty>">>, <<"game_mode", "GameMode">>, <<"ping_ms", "VarInt">>, <<"display_name", "Option<Chat>">>>>],
    PlayerAddProperty |-> [name |-> "PlayerAddProperty",
     fields |-> <<<<"name", "String">>, <<"value", "String">>, <<"signature", "Option<String>">>>>],
    FacePlayerEntityTarget |-> [name |-> "FacePlayerEntityTarget",
     fields |-> <<<<"entity_id", "VarInt">>, <<"kind", "FacePlayerKind">>>>],
    WorldBorderSetSizeSpec |-> [name |-> "WorldBorderSetSizeSpec",
     fields |-> <<<<"diameter", "f64">>>>],
    WorldBorderLerpSizeSpec |-> [name |-> "WorldBorderLerpSizeSpec",
     fields |-> <<<<"old_diameter", "f64">>, <<"new_diameter", "f64">>, <<"speed", "VarLong">>>>],
    WorldBorderSetCenterSpec |-> [name |-> "WorldBorderSetCenterSpec",
     fields |-> <<<<"x", "f64">>, <<"z", "f64">>>>],
    WorldBorderInitiaializeSpec |-> [name |-> "WorldBorderInitiaializeSpec",
     fields |-> <<<<"x", "f64">>, <<"z", "f64">>, <<"old_diameter", "f64">>, <<"new_diameter", "f64">>, <<"speed", "VarLong">>, <<"portal_teleport_boundary", "VarLong">>, <<"warning_time", "VarInt">>, <<"warning_blocks", "VarInt">>>>],
    WorldBorderWarningTimeSpec |-> [name |-> "WorldBorderWarningTimeSpec",
     fields |-> <<<<"warning_time", "VarInt">>>>],
    WorldBorderWarningBlocksSpec |-> [name |-> "WorldBorderWarningBlocksSpec",
     fields |-> <<<<"warning_blocks", "VarInt">>>>],
    ScoreboardObjectiveSpec |-> [name |-> "ScoreboardObjectiveSpec",
     fields |-> <<<<"text", "Chat">>, <<"kind", "ScoreboardObjectiveKind">>>>],
    AdvancementMappingEntrySpec |-> [name |-> "AdvancementMappingEntrySpec",
     fields |-> <<<<"key", "String">>, <<"value", "AdvancementSpec">>>>],
    AdvancementSpec |-> [name |-> "AdvancementSpec",
     fields |-> <<<<"parent", "Option<String>">>, <<"display", "Option<AdvancementDisplaySpec>">>, <<"criteria", "VarIntCountedArray<String>">>, <<"requirements", "VarIntCountedArray<VarIntCountedArray<String>>">>>>],
    AdvancementDisplaySpec |-> [name |-> "AdvancementDisplaySpec",
     fields |-> <<<<"title", "Chat">>, <<"description", "Chat">>, <<"icon", "Option<Slot>">>, <<"frame_type", "AdvancementFrameType">>, <<"flags", "AdvancementDisplayFlags">>, <<"x", "f32">>, <<"y", "f32">>>>],
    AdvancementProgressEntrySpec |-> [name |-> "AdvancementProgressEntrySpec",
     fields |-> <<<<"key", "String">>, <<"value", "AdvancementProgressSpec">>>>],
    AdvancementProgressSpec |-> [name |-> "AdvancementProgressSpec",
     fields |-> <<<<"criteria", "VarIntCountedArray<AdvancementCriteriaSpec>">>>>],
    AdvancementCriteriaSpec |-> [name |-> "AdvancementCriteriaSpec",
     fields |-> <<<<"identifier", "String">>, <<"progress", "AdvancementCriterionProgressSpec">>>>],
    AdvancementCriterionProgressSpec |-> [name |-> "AdvancementCriterionProgressSpec",
     fields |-> <<<<"achieved_at", "Option<i64>">>>>],
    EntityPropertySpec |-> [name |-> "EntityPropertySpec",
     fields |-> <<<<"key", "String">>, <<"value", "f64">>, <<"modifiers", "VarIntCountedArray<EntityPropertyModifierSpec>">>>>],
    EntityPropertyModifierSpec |-> [name |-> "EntityPropertyModifierSpec",
     fields |-> <<<<"uuid", "UUID4">>, <<"amount", "f64">>, <<"operation", "EntityPropertyModifierOperation">>>>],
    TagSpec |-> [name |-> "TagSpec",
     fields |-> <<<<"name", "String">>, <<"entries", "VarIntCountedArray<VarInt>">>>>],
    InteractAtSpec |-> [name |-> "InteractAtSpec",
     fields |-> <<<<"target_x", "f32">>, <<"target_y", "f32">>, <<"target_z", "f32">>, <<"hand", "Hand">>>>],
    RecipeBookStates |-> [name |-> "RecipeBookStates",
     fields |-> <<<<"crafting_book_open", "bool">>, <<"craftinb_filter_active", "bool">>, <<"smelting_book_open", "bool">>, <<"smelting_filter_active", "bool">>, <<"blasting_book_open", "bool">>, <<"blasting_filter_active", "bool">>, <<"smoking_book_open", "bool">>, <<"smoking_filter_active", "bool">>>>],
    RecipeIngredient |-> [name |-> "RecipeIngredient",
     fields |-> <<<<"items", "VarIntCountedArray<Option<Slot>>">>>>],
    RecipeCraftingShapelessSpec |-> [name |-> "RecipeCraftingShapelessSpec",
     fields |-> <<<<"group", "String">>, <<"ingredients", "VarIntCountedArray<RecipeIngredient>">>, <<"result", "Option<Slot>">>>>],
    RecipeSmeltingSpec |-> [name |-> "RecipeSmeltingSpec",
     fields |-> <<<<"group", "String">>, <<"ingredient", "RecipeIngredient">>, <<"result", "Option<Slot>">>, <<"experience", "f32">>, <<"cooking_time", "VarInt">>>>],
    RecipeStonecuttingSpec |-> [name |-> "RecipeStonecuttingSpec",
     fields |-> <<<<"group", "String">>, <<"ingredient", "RecipeIngredient">>, <<"result", "Option<Slot>">>>>],
    EntityRotation |-> [name |-> "EntityRotation",
     fields |-> <<<<"x", "f32">>, <<"y", "f32">>, <<"z", "f32">>>>],
    EntityVillagerData |-> [name |-> "EntityVillagerData",
     fields |-> <<<<"villager_type", "VillagerType">>, <<"villager_profession", "VillagerProfession">>, <<"level", "VarInt">>>>],
    BlockParticleData |-> [name |-> "BlockParticleData",
     fields |-> <<<<"block_state", "VarInt">>>>],
    DustParticleData |-> [name |-> "DustParticleData",
     fields |-> <<<<"red", "f32">>, <<"green", "f32">>, <<"blue", "f32">>, <<"scale", "f32">>>>]
  ]

EnumNames == DOMAIN ProtoEnums

FlagNames == DOMAIN ProtoFlags

StructNames == DOMAIN ProtoStructs

\* the type named by a type expression of the source
TypeDesc(name) ==
  CASE name = "ByteCountedArray<TradeSpec>" -> <<"ByteCountedArray", "TradeSpec">>
    [] name = "IntCountedArray<EntityPropertySpec>" -> <<"IntCountedArray", "EntityPropertySpec">>
    [] name = "IntCountedArray<ExplosionRecord>" -> <<"IntCountedArray", "ExplosionRecord">>
    [] name = "Option<AdvancementDisplaySpec>" -> <<"Option", "AdvancementDisplaySpec">>
    [] name = "Option<Chat>" -> <<"Option", "Chat">>
    [] name = "Option<FacePlayerEntityTarget>" -> <<"Option", "FacePlayerEntityTarget">>
    [] name = "Option<IntPosition>" -> <<"Option", "IntPosition">>
    [] name = "Option<Slot>" -> <<"Option", "Slot">>
    [] name = "Option<String>" -> <<"Option", "String">>
    [] name = "Option<UUID4>" -> <<"Option", "UUID4">>
    [] name = "Option<i64>" -> <<"Option", "i64">>
    [] name = "ShortCountedArray<Option<Slot>>" -> <<"ShortCountedArray", "Option", "Slot">>
    [] name = "VarIntCountedArray<AdvancementCriteriaSpec>" -> <<"VarIntCountedArray", "AdvancementCriteriaSpec">>
    [] name = "VarIntCountedArray<AdvancementMappingEntrySpec>" -> <<"VarIntCountedArray", "AdvancementMappingEntrySpec">>
    [] name = "VarIntCountedArray<AdvancementProgressEntrySpec>" -> <<"VarIntCountedArray", "AdvancementProgressEntrySpec">>
    [] name = "VarIntCountedArray<CommandNodeSpec>" -> <<"VarIntCountedArray", "CommandNodeSpec">>
    [] name = "VarIntCountedArray<EntityPropertyModifierSpec>" -> <<"VarIntCountedArray", "EntityPropertyModifierSpec">>
    [] name = "VarIntCountedArray<MapIconSpec>" -> <<"VarIntCountedArray", "MapIconSpec">>
    [] name = "VarIntCountedArray<MultiBlockChangeRecord>" -> <<"VarIntCountedArray", "MultiBlockChangeRecord">>
    [] name = "VarIntCountedArray<Option<Slot>>" -> <<"VarIntCountedArray", "Option", "Slot">>
    [] name = "VarIntCountedArray<PlayerAddProperty>" -> <<"VarIntCountedArray", "PlayerAddProperty">>
    [] name = "VarIntCountedArray<PlayerInfoAction<GameMode>>" -> <<"VarIntCountedArray", "PlayerInfoAction", "GameMode">>
    [] name = "VarIntCountedArray<PlayerInfoAction<Option<Chat>>>" -> <<"VarIntCountedArray", "PlayerInfoAction", "Option", "Chat">>
    [] name = "VarIntCountedArray<PlayerInfoAction<PlayerAddActionSpec>>" -> <<"VarIntCountedArray", "PlayerInfoAction", "PlayerAddActionSpec">>
    [] name = "VarIntCountedArray<PlayerInfoAction<VarInt>>" -> <<"VarIntCountedArray", "PlayerInfoAction", "VarInt">>
    [] name = "VarIntCountedArray<RecipeIngredient>" -> <<"VarIntCountedArray", "RecipeIngredient">>
    [] name = "VarIntCountedArray<RecipeSpec>" -> <<"VarIntCountedArray", "RecipeSpec">>
    [] name = "VarIntCountedArray<Statistic>" -> <<"VarIntCountedArray", "Statistic">>
    [] name = "VarIntCountedArray<String>" -> <<"VarIntCountedArray", "String">>
    [] name = "VarIntCountedArray<TabCompleteMatch>" -> <<"VarIntCountedArray", "TabCompleteMatch">>
    [] name = "VarIntCountedArray<TagSpec>" -> <<"VarIntCountedArray", "TagSpec">>
    [] name = "VarIntCountedArray<TeamMember>" -> <<"VarIntCountedArray", "TeamMember">>
    [] name = "VarIntCountedArray<UUID4>" -> <<"VarIntCountedArray", "UUID4">>
    [] name = "VarIntCountedArray<VarInt>" -> <<"VarIntCountedArray", "VarInt">>
    [] name = "VarIntCountedArray<VarIntCountedArray<String>>" -> <<"VarIntCountedArray", "VarIntCountedArray", "String">>
    [] name = "VarIntCountedArray<u8>" -> <<"VarIntCountedArray", "u8">>
    [] name = "DoubleParserProps" -> <<"NumParserProps", "f64">>
    [] name = "FloatParserProps" -> <<"NumParserProps", "f32">>
    [] name = "IntegerParserProps" -> <<"NumParserProps", "i32">>
    [] OTHER -> <<name>>

\* the type of the discriminant of an enum
DiscriminantOfKind(kind) ==
  CASE kind = "byte" -> <<"u8">>
    [] kind = "varint" -> <<"VarInt">>
    [] kind = "int" -> <<"i32">>
    [] kind = "str" -> <<"String">>

DiscriminantType(e) == DiscriminantOfKind(ProtoEnums[e].kind)

\* the discriminants declared for an enum
DeclaredIdsOf(vs) == {vs[k].id : k \in DOMAIN vs}

DeclaredIds(e) == DeclaredIdsOf(ProtoEnums[e].variants)

\* the arms of `match id { ... }` in declaration order; an id that no arm
\* declares is an error that carries the id
MatchArms(vs, e, id) ==
  IF \A k \in DOMAIN vs : vs[k].id # id THEN Err(<<"CannotUnderstandValue", e, id>>)
  ELSE Ok(vs[CHOOSE k \in DOMAIN vs : vs[k].id = id /\ \A o \in 1..(k - 1) : vs[o].id # id], <<>>)

MatchDiscriminant(e, id) == MatchArms(ProtoEnums[e].variants, e, id)

\* the declaration of the variant an enum value is of
VariantIn(vs, v) == vs[CHOOSE k \in DOMAIN vs : vs[k].variant = v.variant]

VariantOf(e, v) == VariantIn(ProtoEnums[e].variants, v)

\* $name::id(&self)
Enum_id(e, v) == VariantOf(e, v).id

\* $name::serialize_body(&self, to): the payload fields; nothing for a unit variant
SerializeBody(decl, v) ==
  IF decl.body = "" THEN <<>> ELSE Serialize(TypeDesc(decl.body), v.body)

Enum_serialize_body(e, v) == SerializeBody(VariantOf(e, v), v)

\* mc_serialize: the discriminant, then the payload
Enum_serialize(e, v) ==
  Serialize(DiscriminantType(e), Enum_id(e, v)) \o Enum_serialize_body(e, v)

\* the variant built from its decoded payload
WithVariant(variant, r) ==
  IF ~IsOk(r) THEN r ELSE Ok([variant |-> variant, body |-> r.value], r.data)

\* the arm selected by the match: a unit variant consumes nothing, another
\* one decodes its payload from data
DeserializeBody(m, data) ==
  IF ~IsOk(m) THEN m
  ELSE IF m.value.body = "" THEN Ok([variant |-> m.value.variant], data)
  ELSE WithVariant(m.value.variant, Deserialize(TypeDesc(m.value.body), data))

\* $name::deserialize_with_id(id, data): the variant declared for the id,
\* its payload decoded from data
Enum_deserialize_with_id(e, id, data) == DeserializeBody(MatchDiscriminant(e, id), data)

\* mc_deserialize: the discriminant is read first, then deserialize_with_id
Enum_deserialize(e, data) ==
  LET d == Deserialize(DiscriminantType(e), data)
  IN IF ~IsOk(d) THEN d ELSE Enum_deserialize_with_id(e, d.value, d.data)

\* the first step of mc_deserialize: the discriminant is read and matched;
\* the result names the variant selected and the type whose decoder is
\* handed the remaining data
Enum_select(e, data) ==
  LET d == Deserialize(DiscriminantType(e), data)
  IN IF ~IsOk(d) THEN d
     ELSE LET m == MatchDiscriminant(e, d.value)
          IN IF ~IsOk(m) THEN m
             ELSE Ok([variant |-> m.value.variant, body |-> m.value.body], d.data)

\* proto_byte_flag!: a flag set is a record of booleans, one per declared
\* flag; encode ORs the bits of the flags that are set
RECURSIVE FlagBits(_, _)
FlagBits(fs, v) ==
  IF fs = <<>> THEN 0
  ELSE BitOr(IF v[Head(fs).flag] THEN Head(fs).bit ELSE 0, FlagBits(Tail(fs), v), 8)

Flags_serialize(f, v) == u8_serialize(FlagBits(ProtoFlags[f].flags, v))

Flags_deserializeStrict(f, data) ==
  LET b == u8_deserialize(data)
      fs == ProtoFlags[f].flags
  IN IF ~IsOk(b) THEN b
     ELSE IF BitAnd(b.value, 255 - FlagBits(fs, [n \in {fs[k].flag : k \in DOMAIN fs} |-> TRUE]), 8) # 0
     THEN Err("InvalidFlags")
     ELSE Ok([n \in {fs[k].flag : k \in DOMAIN fs} |->
                LET d == fs[CHOOSE k \in DOMAIN fs : fs[k].flag = n]
                IN BitAnd(b.value, d.bit, 8) # 0],
             b.data)

\* decode tests the bit of each declared flag; other bits are not looked at
Flags_deserialize(f, data) ==
  LET b == u8_deserialize(data)
      fs == ProtoFlags[f].flags
  IN IF ~IsOk(b) THEN b
     ELSE Ok([n \in {fs[k].flag : k \in DOMAIN fs} |->
                LET d == fs[CHOOSE k \in DOMAIN fs : fs[k].flag = n]
                IN BitAnd(b.value, d.bit, 8) # 0],
             b.data)

\* __protocol_body_def_helper!: a struct is a record; its fields are written
\* in declaration order
RECURSIVE SerializeFields(_, _)
SerializeFields(fields, v) ==
  IF fields = <<>> THEN <<>>
  ELSE Serialize(TypeDesc(Head(fields)[2]), v[Head(fields)[1]])
         \o SerializeFields(Tail(fields), v)

Struct_serialize(s, v) == SerializeFields(ProtoStructs[s].fields, v)

\* each field is decoded from what the previous field left
RECURSIVE DeserializeFields(_, _, _)
DeserializeFields(fields, data, acc) ==
  IF fields = <<>> THEN Ok(acc, data)
  ELSE LET r == Deserialize(TypeDesc(Head(fields)[2]), data)
       IN IF ~IsOk(r) THEN r
          ELSE DeserializeFields(Tail(fields), r.data, acc @@ (Head(fields)[1] :> r.value))

Struct_deserialize(s, data) == DeserializeFields(ProtoStructs[s].fields, data, <<>>)

(***************************************************************************)
(* f32 <-> u8 casts used by GameChangeReason.  An f32 is its four          *)
(* big-endian bytes: sign bit, 8 exponent bits, 23 mantissa bits.          *)
(***************************************************************************)
\* floor(log2(n)) for n in 1..255
Log2Floor(n) == CHOOSE k \in 0..7 : Pow2(k) <= n /\ n < Pow2(k + 1)

\* n as f32 for a u8 n (exact)
F32FromU8(n) ==
  IF n = 0 THEN <<0, 0, 0, 0>>
  ELSE LET k == Log2Floor(n)
           e == 127 + k
           m == (n - Pow2(k)) * Pow2(23 - k)
       IN <<e \div 2, (e % 2) * 128 + (m \div 65536), (m \div 256) % 256, m % 256>>

\* f as u8 for an f32 f: truncation toward zero, saturating at 0 and 255,
\* NaN to 0
F32ToU8(f) ==
  LET s == f[1] \div 128
      e == (f[1] % 128) * 2 + (f[2] \div 128)
      m == (f[2] % 128) * 65536 + f[3] * 256 + f[4]
  IN IF e = 255 /\ m # 0 THEN 0
     ELSE IF s = 1 THEN 0
     ELSE IF e < 127 THEN 0
     ELSE IF e >= 135 THEN 255
     ELSE (8388608 + m) \div Pow2(23 - (e - 127))

(***************************************************************************)
(* GameChangeReason (hand-written): a reason id byte, then always an f32.  *)
(***************************************************************************)
GameChangeReasonIds ==
  <<"NoRespawnAvailable", "EndRaining", "BeginRaining", "ChangeGameMode", "WinGame",
    "Demo", "ArrowHitPlayer", "RainLevelChange", "ThunderLevelChange", "PufferfishSting",
    "ElderGuardianMobAppearance", "Respawn">>

\* the enum of the payload of the reasons that carry an enum
GameChangeReasonEnum(variant) ==
  CASE variant = "ChangeGameMode" -> "GameMode"
    [] variant = "WinGame" -> "WinGameAction"
    [] variant = "Demo" -> "DemoEvent"
    [] variant = "Respawn" -> "RespawnRequestType"

GameChangeReason_serialize(v) ==
  LET id == (CHOOSE k \in DOMAIN GameChangeReasonIds : GameChangeReasonIds[k] = v.variant) - 1
      value ==
        IF v.variant \in {"ChangeGameMode", "WinGame", "Demo", "Respawn"}
        THEN F32FromU8(Enum_id(GameChangeReasonEnum(v.variant), v.body))
        ELSE IF v.variant \in {"RainLevelChange", "ThunderLevelChange"} THEN v.body
        ELSE F32FromU8(0)
  IN u8_serialize(id) \o f32_serialize(value)

\* Ok(...?.map(move |mode| Variant(mode)))
GameChangeReason_map(variant, m) ==
  IF ~IsOk(m) THEN m ELSE Ok([variant |-> variant, body |-> m.value], m.data)

GameChangeReason_otherDefaulting(other, data) == Ok([variant |-> "NoRespawnAvailable"], data)

\* other => Err(CannotUnderstandValue("invalid game change reason id {other}"))
GameChangeReason_other(other, data) ==
  Err(<<"CannotUnderstandValue", "invalid game change reason id", other>>)

\* match reason_id { ... }
GameChangeReason_match(reason_id, value, data) ==
  CASE reason_id = 0 -> Ok([variant |-> "NoRespawnAvailable"], data)
    [] reason_id = 1 -> Ok([variant |-> "EndRaining"], data)
    [] reason_id = 2 -> Ok([variant |-> "BeginRaining"], data)
    [] reason_id = 3 ->
         GameChangeReason_map("ChangeGameMode",
                              Enum_deserialize_with_id("GameMode", F32ToU8(value), data))
    [] reason_id = 4 ->
         GameChangeReason_map("WinGame",
                              Enum_deserialize_with_id("WinGameAction", F32ToU8(value), data))
    [] reason_id = 5 ->
         GameChangeReason_map("Demo",
                              Enum_deserialize_with_id("DemoEvent", F32ToU8(value), data))
    [] reason_id = 6 -> Ok([variant |-> "ArrowHitPlayer"], data)
    [] reason_id = 7 -> Ok([variant |-> "RainLevelChange", body |-> value], data)
    [] reason_id = 8 -> Ok([variant |-> "ThunderLevelChange", body |-> value], data)
    [] reason_id = 9 -> Ok([variant |-> "PufferfishSting"], data)
    [] reason_id = 10 -> Ok([variant |-> "ElderGuardianMobAppearance"], data)
    [] reason_id = 11 ->
         GameChangeReason_map("Respawn",
                              Enum_deserialize_with_id("RespawnRequestType", F32ToU8(value), data))
    [] OTHER -> GameChangeReason_other(reason_id, data)

GameChangeReason_deserializeFloatOnDemand(data) ==
  LET reason_id == u8_deserialize(data)
  IN IF ~IsOk(reason_id) THEN reason_id
     ELSE IF reason_id.value \in {0, 1, 2, 6, 9, 10}
     THEN GameChangeReason_match(reason_id.value, <<0, 0, 0, 0>>, reason_id.data)
     ELSE LET value == f32_deserialize(reason_id.data)
          IN IF ~IsOk(value) THEN value
             ELSE GameChangeReason_match(reason_id.value, value.value, value.data)

\* the float is read after the reason id, whatever the reason
GameChangeReason_deserialize(data) ==
  LET reason_id == u8_deserialize(data)
  IN IF ~IsOk(reason_id) THEN reason_id
     ELSE LET value == f32_deserialize(reason_id.data)
          IN IF ~IsOk(value) THEN value
             ELSE GameChangeReason_match(reason_id.value, value.value, value.data)

(***************************************************************************)
(* NumParserProps<T> (hand-written): a flag byte saying which of min and   *)
(* max follow.                                                             *)
(***************************************************************************)
NumParserProps_serialize(t, v) ==
  u8_serialize(BitOr(IF v.min.some THEN 1 ELSE 0, IF v.max.some THEN 2 ELSE 0, 8))
    \o (IF v.min.some THEN Serialize(t, v.min.value) ELSE <<>>)
    \o (IF v.max.some THEN Serialize(t, v.max.value) ELSE <<>>)

SomeOf(r) == IF ~IsOk(r) THEN r ELSE Ok(Some(r.value), r.data)

\* the value that follows when its flag bit is set: (Some(v), data) or (None, data)
ReadIf(present, t, data) ==
  IF ~present THEN Ok(None, data) ELSE SomeOf(Deserialize(t, data))

NumParserProps_deserializeMaxOnMinBit(t, data) ==
  LET f == u8_deserialize(data)
  IN IF ~IsOk(f) THEN f
     ELSE LET min == ReadIf(BitAnd(f.value, 1, 8) # 0, t, f.data)
          IN IF ~IsOk(min) THEN min
             ELSE LET max == ReadIf(BitAnd(f.value, 1, 8) # 0, t, min.data)
                  IN IF ~IsOk(max) THEN max
                     ELSE Ok([min |-> min.value, max |-> max.value], max.data)

NumParserProps_deserialize(t, data) ==
  LET f == u8_deserialize(data)
  IN IF ~IsOk(f) THEN f
     ELSE LET min == ReadIf(BitAnd(f.value, 1, 8) # 0, t, f.data)
          IN IF ~IsOk(min) THEN min
             ELSE LET max == ReadIf(BitAnd(f.value, 2, 8) # 0, t, min.data)
                  IN IF ~IsOk(max) THEN max
                     ELSE Ok([min |-> min.value, max |-> max.value], max.data)

(***************************************************************************)
(* CommandNodeSpec (hand-written): a node of the command graph.  A node is *)
(* [children_indices, redirect_node, is_executable, node] and node is      *)
(* Root, Literal(CommandLiteralNodeSpec) or Argument(CommandArgumentNode-  *)
(* Spec).                                                                  *)
(***************************************************************************)
CommandNodeSpec_flagsNoSuggestions(n) ==
  BitOr(BitOr(CASE n.node.variant = "Root" -> 0
                [] n.node.variant = "Literal" -> 1
                [] n.node.variant = "Argument" -> 2,
              IF n.is_executable THEN 4 ELSE 0, 8),
        IF n.redirect_node.some THEN 8 ELSE 0, 8)

\* let mut flags: u8 = 0; flags |= ...
CommandNodeSpec_flags(n) ==
  BitOr(BitOr(BitOr(CASE n.node.variant = "Root" -> 0
                      [] n.node.variant = "Literal" -> 1
                      [] n.node.variant = "Argument" -> 2,
                    IF n.is_executable THEN 4 ELSE 0, 8),
              IF n.redirect_node.some THEN 8 ELSE 0, 8),
        IF n.node.variant = "Argument" /\ n.node.body.suggestions_types.some THEN 16 ELSE 0,
        8)

\* CommandArgumentNodeSpec::serialize
CommandArgumentNodeSpec_serialize(body) ==
  Serialize(<<"String">>, body.name)
    \o Serialize(<<"CommandParserSpec">>, body.parser)
    \o (IF body.suggestions_types.some
        THEN Serialize(<<"SuggestionsTypeSpec">>, body.suggestions_types.value)
        ELSE <<>>)

CommandArgumentNodeSpec_deserializeNoSuggestions(has_suggestion_types, data) ==
  LET name == Deserialize(<<"String">>, data)
  IN IF ~IsOk(name) THEN name
     ELSE LET parser == Deserialize(<<"CommandParserSpec">>, name.data)
          IN IF ~IsOk(parser) THEN parser
             ELSE Ok([name |-> name.value, parser |-> parser.value,
                      suggestions_types |-> None],
                     parser.data)

CommandArgumentNodeSpec_afterSuggestions(name, parser, suggestions_types) ==
  IF ~IsOk(suggestions_types) THEN suggestions_types
  ELSE Ok([name |-> name, parser |-> parser, suggestions_types |-> suggestions_types.value],
          suggestions_types.data)

CommandArgumentNodeSpec_afterParser(has_suggestion_types, name, parser) ==
  IF ~IsOk(parser) THEN parser
  ELSE CommandArgumentNodeSpec_afterSuggestions(
         name, parser.value,
         ReadIf(has_suggestion_types, <<"SuggestionsTypeSpec">>, parser.data))

CommandArgumentNodeSpec_afterName(has_suggestion_types, name) ==
  IF ~IsOk(name) THEN name
  ELSE CommandArgumentNodeSpec_afterParser(has_suggestion_types, name.value,
                                           Deserialize(<<"CommandParserSpec">>, name.data))

\* CommandArgumentNodeSpec::deserialize(has_suggestion_types, data)
CommandArgumentNodeSpec_deserialize(has_suggestion_types, data) ==
  CommandArgumentNodeSpec_afterName(has_suggestion_types, Deserialize(<<"String">>, data))

CommandNodeSpec_serialize(n) ==
  u8_serialize(CommandNodeSpec_flags(n))
    \o Serialize(<<"VarIntCountedArray", "VarInt">>, n.children_indices)
    \o (IF n.redirect_node.some THEN Serialize(<<"VarInt">>, n.redirect_node.value) ELSE <<>>)
    \o (CASE n.node.variant = "Root" -> <<>>
          [] n.node.variant = "Argument" -> CommandArgumentNodeSpec_serialize(n.node.body)
          [] n.node.variant = "Literal" -> Serialize(<<"CommandLiteralNodeSpec">>, n.node.body))

\* match flags & 0x03 { ... }: kind 3 has no arm but the panic
CommandNodeSpec_matchKind(flags, data) ==
  CASE BitAnd(flags, 3, 8) = 0 -> Ok([variant |-> "Root"], data)
    [] BitAnd(flags, 3, 8) = 1 ->
         WithVariant("Literal", Deserialize(<<"CommandLiteralNodeSpec">>, data))
    [] BitAnd(flags, 3, 8) = 2 ->
         WithVariant("Argument",
                     CommandArgumentNodeSpec_deserialize(BitAnd(flags, 16, 8) # 0, data))
    [] OTHER -> Panic(<<"impossible condition (bitmask)", BitAnd(flags, 3, 8)>>)

CommandNodeSpec_deserialize(data) ==
  LET flags == u8_deserialize(data)
  IN IF ~IsOk(flags) THEN flags
     ELSE LET children_indices == Deserialize(<<"VarIntCountedArray", "VarInt">>, flags.data)
          IN IF ~IsOk(children_indices) THEN children_indices
             ELSE LET redirect_node ==
                        ReadIf(BitAnd(flags.value, 8, 8) # 0, <<"VarInt">>,
                               children_indices.data)
                  IN IF ~IsOk(redirect_node) THEN redirect_node
                     ELSE LET node == CommandNodeSpec_matchKind(flags.value, redirect_node.data)
                          IN IF ~IsOk(node) THEN node
                             ELSE Ok([children_indices |-> children_indices.value,
                                      redirect_node |-> redirect_node.value,
                                      is_executable |-> BitAnd(flags.value, 4, 8) # 0,
                                      node |-> node.value],
                                     node.data)

(***************************************************************************)
(* LightingData and LightingUpdateSpec (hand-written).  A LightingData is  *)
(* the array data of LIGHT_DATA_SECTIONS optional sections, each of        *)
(* LIGHT_DATA_LENGTH bytes; section i of the source is element i + 1.      *)
(***************************************************************************)
LIGHT_DATA_LENGTH == 2048

LIGHT_DATA_SECTIONS == 18

BadLengthAbove(length) == length > LIGHT_DATA_LENGTH

\* (length.0 as usize) != LIGHT_DATA_LENGTH
BadLength(length) == SignExtend(length) # UsizeOf(LIGHT_DATA_LENGTH)

\* for i in 0..LIGHT_DATA_SECTIONS { if update_mask.0 & (1 << i) != 0 { ... } }
RECURSIVE LightingData_sections(_, _, _, _)
LightingData_sections(update_mask, i, out, data) ==
  IF i = LIGHT_DATA_SECTIONS THEN Ok(out, data)
  ELSE IF Bit(update_mask, i) = 0 THEN LightingData_sections(update_mask, i + 1, out, data)
  ELSE LET length == VarInt_deserialize(data)
       IN IF ~IsOk(length) THEN length
          ELSE IF BadLength(length.value)
          THEN Err(<<"CannotUnderstandValue", "bad data length in light update", length.value>>)
          ELSE IF Len(length.data) < LIGHT_DATA_LENGTH THEN Err("Eof")
          ELSE LightingData_sections(
                 update_mask, i + 1,
                 [out EXCEPT ![i + 1] = Some(SubSeq(length.data, 1, LIGHT_DATA_LENGTH))],
                 SubSeq(length.data, LIGHT_DATA_LENGTH + 1, Len(length.data)))

\* LightingData::deserialize(update_mask, data)
LightingData_deserialize(update_mask, data) ==
  LightingData_sections(update_mask, 0, [i \in 1..LIGHT_DATA_SECTIONS |-> None], data)

\* out |= 1 << i for every section from i on whose presence equals has;
\* the bits are distinct, so each |= adds 2^i
RECURSIVE compute_has_mask_from(_, _, _)
compute_has_mask_from(data, has, i) ==
  IF i = LIGHT_DATA_SECTIONS THEN 0
  ELSE (IF data[i + 1].some = has THEN Pow2(i) ELSE 0)
         + compute_has_mask_from(data, has, i + 1)

compute_has_maskIgnoringHas(data, has) == compute_has_mask_from(data, TRUE, 0)

\* LightingData::compute_has_mask(has); out stays below 2^18, so out as i32 is out
compute_has_mask(data, has) == compute_has_mask_from(data, has, 0)

update_mask(data) == compute_has_mask(data, TRUE)

reset_mask(data) == compute_has_mask(data, FALSE)

\* LightingData::serialize_data: each present section, in index order
RECURSIVE LightingData_serialize_data(_)
LightingData_serialize_data(data) ==
  IF Len(data) = 0 THEN <<>>
  ELSE (IF Head(data).some THEN VarInt_serialize(2048) \o Head(data).value ELSE <<>>)
         \o LightingData_serialize_data(Tail(data))

LightingUpdateSpec_serializeBlockFirst(v) ==
  VarInt_serialize(update_mask(v.skylight_data))
    \o VarInt_serialize(update_mask(v.blocklight_data))
    \o VarInt_serialize(reset_mask(v.skylight_data))
    \o VarInt_serialize(reset_mask(v.blocklight_data))
    \o LightingData_serialize_data(v.blocklight_data)
    \o LightingData_serialize_data(v.skylight_data)

LightingUpdateSpec_serialize(v) ==
  VarInt_serialize(update_mask(v.skylight_data))
    \o VarInt_serialize(update_mask(v.blocklight_data))
    \o VarInt_serialize(reset_mask(v.skylight_data))
    \o VarInt_serialize(reset_mask(v.blocklight_data))
    \o LightingData_serialize_data(v.skylight_data)
    \o LightingData_serialize_data(v.blocklight_data)

\* the four masks are read one after the other; the two reset masks are dropped
LightingUpdateSpec_deserialize(data) ==
  LET masks == ReadElements(<<"VarInt">>, 4, data)
  IN IF ~IsOk(masks) THEN masks
     ELSE LET skylight_data == LightingData_deserialize(masks.value[1], masks.data)
          IN IF ~IsOk(skylight_data) THEN skylight_data
             ELSE LET blocklight_data ==
                        LightingData_deserialize(masks.value[2], skylight_data.data)
                  IN IF ~IsOk(blocklight_data) THEN blocklight_data
                     ELSE Ok([skylight_data |-> skylight_data.value,
                              blocklight_data |-> blocklight_data.value],
                             blocklight_data.data)

(***************************************************************************)
(* EntityMetadata (hand-written): (index byte, field data) entries closed  *)
(* by the byte 0xFF.  A value is the record of its Vec of fields.          *)
(***************************************************************************)
\* for field in &self.fields { index byte; field data }
RECURSIVE EntityMetadata_serialize_fields(_)
EntityMetadata_serialize_fields(fields) ==
  IF Len(fields) = 0 THEN <<>>
  ELSE u8_serialize(Head(fields).index)
         \o Serialize(<<"EntityMetadataFieldData">>, Head(fields).data)
         \o EntityMetadata_serialize_fields(Tail(fields))

EntityMetadata_serialize(v) == EntityMetadata_serialize_fields(v.fields) \o u8_serialize(255)

RECURSIVE EntityMetadata_loop(_, _)
\* the field data was read: it is pushed with its index and the loop goes on
EntityMetadata_afterField(fields, index, field) ==
  IF ~IsOk(field) THEN field
  ELSE EntityMetadata_loop(Append(fields, [index |-> index, data |-> field.value]), field.data)

EntityMetadata_afterIndexEofEnds(fields, index) ==
  IF ~IsOk(index) \/ index.value = 255
  THEN Ok([fields |-> fields], IF IsOk(index) THEN index.data ELSE <<>>)
  ELSE EntityMetadata_afterField(fields, index.value,
                                 Deserialize(<<"EntityMetadataFieldData">>, index.data))

\* the index byte was read: 0xFF breaks the loop
EntityMetadata_afterIndex(fields, index) ==
  IF ~IsOk(index) THEN index
  ELSE IF index.value = 255 THEN Ok([fields |-> fields], index.data)
  ELSE EntityMetadata_afterField(fields, index.value,
                                 Deserialize(<<"EntityMetadataFieldData">>, index.data))

\* loop { ... }
EntityMetadata_loop(fields, data) == EntityMetadata_afterIndex(fields, u8_deserialize(data))

EntityMetadata_deserialize(data) == EntityMetadata_loop(<<>>, data)

EntityMetadata_setAlwaysPush(m, index, data) ==
  [fields |-> Append(m.fields, [index |-> index, data |-> data])]

\* EntityMetadata::set: the data of the first field with that index is
\* replaced; without such a field one is pushed
EntityMetadata_set(m, index, data) ==
  IF \E k \in DOMAIN m.fields : m.fields[k].index = index
  THEN [fields |->
          [m.fields EXCEPT ![CHOOSE k \in DOMAIN m.fields :
                               /\ m.fields[k].index = index
                               /\ \A j \in 1..(k - 1) : m.fields[j].index # index]
                             = [index |-> index, data |-> data]]]
  ELSE [fields |-> Append(m.fields, [index |-> index, data |-> data])]

\* EntityMetadata::get: the data of the first field with that index
EntityMetadata_get(m, index) ==
  IF \E k \in DOMAIN m.fields : m.fields[k].index = index
  THEN Some(m.fields[CHOOSE k \in DOMAIN m.fields :
                       /\ m.fields[k].index = index
                       /\ \A j \in 1..(k - 1) : m.fields[j].index # index].data)
  ELSE None

(***************************************************************************)
(* UUID4: sixteen bytes; its text is the dashed grouping of 8-4-4-4-12 hex *)
(* digits.  TeamMember (hand-written): one string, an entity when the      *)
(* string parses as an identifier and a player name otherwise.             *)
(***************************************************************************)
Dash == 45

DashPositions == {9, 14, 19, 24}

\* the value of a hex digit character, -1 for any other character
HexValue(c) ==
  IF c \in 48..57 THEN c - 48
  ELSE IF c \in 97..102 THEN c - 87
  ELSE IF c \in 65..70 THEN c - 55
  ELSE -1

HexChar(n) == IF n < 10 THEN 48 + n ELSE 87 + n

\* None for a malformed text, the sixteen bytes otherwise
UUID4_parse(text) ==
  IF Len(text) # 36 THEN None
  ELSE IF \E i \in 1..36 : IF i \in DashPositions THEN text[i] # Dash
                                                  ELSE HexValue(text[i]) = -1
  THEN None
  ELSE LET digits == SelectSeq(text, LAMBDA c : c # Dash)
       IN Some([k \in 1..16 |-> HexValue(digits[2 * k - 1]) * 16 + HexValue(digits[2 * k])])

UUID4_hex(id) ==
  Flatten([k \in 1..16 |-> <<HexChar(id[k] \div 16), HexChar(id[k] % 16)>>])

UUID4_to_string(id) ==
  SubSeq(UUID4_hex(id), 1, 8) \o <<Dash>> \o SubSeq(UUID4_hex(id), 9, 12) \o <<Dash>>
    \o SubSeq(UUID4_hex(id), 13, 16) \o <<Dash>> \o SubSeq(UUID4_hex(id), 17, 20)
    \o <<Dash>> \o SubSeq(UUID4_hex(id), 21, 32)

TeamMember_serialize(v) ==
  IF v.variant = "Player" THEN String_serialize(v.body)
  ELSE String_serialize(UUID4_to_string(v.body))

TeamMember_fromParsed(raw, entity_id) ==
  IF entity_id.some THEN [variant |-> "Entity", body |-> entity_id.value]
  ELSE [variant |-> "Player", body |-> raw]

TeamMember_fromRawAsPlayer(raw) == [variant |-> "Player", body |-> raw]

TeamMember_fromRaw(raw) == TeamMember_fromParsed(raw, UUID4_parse(raw))

TeamMember_afterString(raw) ==
  IF ~IsOk(raw) THEN raw ELSE Ok(TeamMember_fromRaw(raw.value), raw.data)

TeamMember_deserialize(data) == TeamMember_afterString(String_deserialize(data))

(***************************************************************************)
(* NamedNbtTag: a self-delimiting tag blob.  The model knows the blobs of  *)
(* a small table, none a prefix of another; any other input is an error.   *)
(***************************************************************************)
NbtBlobs ==
  <<<<0>>,
    <<1, 0, 1, 97, 5>>,
    <<8, 0, 2, 105, 100, 0, 1, 120>>>>

IsPrefix(p, data) == Len(p) <= Len(data) /\ SubSeq(data, 1, Len(p)) = p

NamedNbtTag_serialize(tag) == tag

NamedNbtTag_deserialize(data) ==
  IF \E k \in DOMAIN NbtBlobs : IsPrefix(NbtBlobs[k], data)
  THEN LET k == CHOOSE k \in DOMAIN NbtBlobs : IsPrefix(NbtBlobs[k], data)
       IN Ok(NbtBlobs[k], SubSeq(data, Len(NbtBlobs[k]) + 1, Len(data)))
  ELSE IF \E k \in DOMAIN NbtBlobs : IsPrefix(data, NbtBlobs[k]) THEN Err("Eof")
  ELSE Err("InvalidNbt")

(***************************************************************************)
(* ChunkData (hand-written): x, z, the full-column boolean, the bit-mask,  *)
(* the height maps, the biomes of a full column, the data, the block       *)
(* entities behind their count.                                            *)
(***************************************************************************)
BIOMES_LENGTH == 1024

ChunkData_biomes(full_chunk, biomes) ==
  IF full_chunk THEN SerializeEach(<<"i32">>, biomes.value) ELSE <<>>

ChunkData_serialize(v) ==
  i32_serialize(v.chunk_x)
    \o i32_serialize(v.chunk_z)
    \o bool_serialize(v.biomes.some)
    \o VarInt_serialize(v.primary_bit_mask)
    \o NamedNbtTag_serialize(v.heightmaps)
    \o ChunkData_biomes(v.biomes.some, v.biomes)
    \o Serialize(<<"VarIntCountedArray", "u8">>, v.data)
    \o VarInt_serialize(TruncateI32(UsizeOf(Len(v.block_entities))))
    \o SerializeEach(<<"NamedNbtTag">>, v.block_entities)

ChunkData_afterEntities(acc, entities) ==
  IF ~IsOk(entities) THEN entities
  ELSE Ok(acc @@ [block_entities |-> entities.value], entities.data)

\* Vec::with_capacity panics on a count above isize::MAX, which a negative
\* count is as usize
ChunkData_afterCount(acc, n_block_entities_raw) ==
  IF ~IsOk(n_block_entities_raw) THEN n_block_entities_raw
  ELSE IF n_block_entities_raw.value < 0 THEN Panic("capacity overflow")
  ELSE ChunkData_afterEntities(
         acc,
         ReadElements(<<"NamedNbtTag">>,
                      LoopCount(SignExtend(n_block_entities_raw.value),
                                n_block_entities_raw.data),
                      n_block_entities_raw.data))

ChunkData_afterData(acc, chunk_data) ==
  IF ~IsOk(chunk_data) THEN chunk_data
  ELSE ChunkData_afterCount(acc @@ [data |-> chunk_data.value],
                            VarInt_deserialize(chunk_data.data))

ChunkData_afterBiomes(acc, is_full_chunk, biomes) ==
  IF ~IsOk(biomes) THEN biomes
  ELSE ChunkData_afterData(
         acc @@ [biomes |-> IF is_full_chunk THEN Some(biomes.value) ELSE None],
         Deserialize(<<"VarIntCountedArray", "u8">>, biomes.data))

ChunkData_readBiomesAlways(is_full_chunk, data) == ReadElements(<<"i32">>, BIOMES_LENGTH, data)

ChunkData_readBiomes(is_full_chunk, data) ==
  IF is_full_chunk THEN ReadElements(<<"i32">>, BIOMES_LENGTH, data) ELSE Ok(<<>>, data)

ChunkData_afterHeightmaps(acc, is_full_chunk, heightmaps) ==
  IF ~IsOk(heightmaps) THEN heightmaps
  ELSE ChunkData_afterBiomes(acc @@ [heightmaps |-> heightmaps.value], is_full_chunk,
                             ChunkData_readBiomes(is_full_chunk, heightmaps.data))

ChunkData_afterMask(acc, is_full_chunk, primary_bit_mask) ==
  IF ~IsOk(primary_bit_mask) THEN primary_bit_mask
  ELSE ChunkData_afterHeightmaps(acc @@ [primary_bit_mask |-> primary_bit_mask.value],
                                 is_full_chunk,
                                 NamedNbtTag_deserialize(primary_bit_mask.data))

ChunkData_afterFull(acc, is_full_chunk) ==
  IF ~IsOk(is_full_chunk) THEN is_full_chunk
  ELSE ChunkData_afterMask(acc, is_full_chunk.value, VarInt_deserialize(is_full_chunk.data))

ChunkData_afterZ(acc, chunk_z) ==
  IF ~IsOk(chunk_z) THEN chunk_z
  ELSE ChunkData_afterFull(acc @@ [chunk_z |-> chunk_z.value], bool_deserialize(chunk_z.data))

ChunkData_afterX(chunk_x) ==
  IF ~IsOk(chunk_x) THEN chunk_x
  ELSE ChunkData_afterZ([chunk_x |-> chunk_x.value], i32_deserialize(chunk_x.data))

ChunkData_deserialize(data) == ChunkData_afterX(i32_deserialize(data))

(***************************************************************************)
(* UpdateScoreSpec (hand-written): the discriminant of the action, the     *)
(* objective name, the payload of the action.  Both directions are given   *)
(* statement by statement, so that the order of the writes and of the      *)
(* reads is part of the model.                                             *)
(***************************************************************************)
UpdateScoreSpec_statementsNameFirst == <<"objective_name", "action_id", "body">>

\* the statements of mc_serialize, in program order
UpdateScoreSpec_statements == <<"action_id", "objective_name", "body">>

\* what one statement of mc_serialize writes to the sink
UpdateScoreSpec_write(v, part) ==
  CASE part = "action_id" -> u8_serialize(Enum_id("UpdateScoreAction", v.action))
    [] part = "objective_name" -> String_serialize(v.objective_name)
    [] part = "body" -> Enum_serialize_body("UpdateScoreAction", v.action)

\* the serializer after one more statement
UpdateScoreSpec_serialize_step(v, st) ==
  [pc |-> st.pc + 1,
   sink |-> st.sink \o UpdateScoreSpec_write(v, UpdateScoreSpec_statements[st.pc + 1]),
   writes |-> Append(st.writes, UpdateScoreSpec_statements[st.pc + 1])]

RECURSIVE UpdateScoreSpec_serialize_from(_, _)
UpdateScoreSpec_serialize_from(v, st) ==
  IF st.pc = Len(UpdateScoreSpec_statements) THEN st.sink
  ELSE UpdateScoreSpec_serialize_from(v, UpdateScoreSpec_serialize_step(v, st))

SerializerStart == [pc |-> 0, sink |-> <<>>, writes |-> <<>>]

UpdateScoreSpec_serialize(v) == UpdateScoreSpec_serialize_from(v, SerializerStart)

DeserializerStart(data) ==
  [pc |-> 0, rest |-> data, reads |-> <<>>, action_id |-> 0, objective_name |-> <<>>,
   done |-> FALSE, result |-> Err("none")]

\* a statement that failed ends mc_deserialize with its error (the ? operator)
UpdateScoreSpec_failed(st, r) == [st EXCEPT !.done = TRUE, !.result = r]

UpdateScoreSpec_readActionId(st, r) ==
  IF ~IsOk(r) THEN UpdateScoreSpec_failed(st, r)
  ELSE [st EXCEPT !.pc = 1, !.rest = r.data, !.action_id = r.value,
                  !.reads = Append(@, "action_id")]

UpdateScoreSpec_readObjectiveName(st, r) ==
  IF ~IsOk(r) THEN UpdateScoreSpec_failed(st, r)
  ELSE [st EXCEPT !.pc = 2, !.rest = r.data, !.objective_name = r.value,
                  !.reads = Append(@, "objective_name")]

UpdateScoreSpec_readBody(st, r) ==
  IF ~IsOk(r) THEN UpdateScoreSpec_failed(st, r)
  ELSE [st EXCEPT !.pc = 3, !.rest = r.data, !.reads = Append(@, "body"), !.done = TRUE,
                  !.result = Ok([objective_name |-> st.objective_name, action |-> r.value],
                                r.data)]

\* the deserializer after one more statement
UpdateScoreSpec_deserialize_step(st) ==
  CASE st.pc = 0 -> UpdateScoreSpec_readActionId(st, u8_deserialize(st.rest))
    [] st.pc = 1 -> UpdateScoreSpec_readObjectiveName(st, String_deserialize(st.rest))
    [] st.pc = 2 ->
         UpdateScoreSpec_readBody(
           st, Enum_deserialize_with_id("UpdateScoreAction", st.action_id, st.rest))

RECURSIVE UpdateScoreSpec_deserialize_from(_)
UpdateScoreSpec_deserialize_from(st) ==
  IF st.done THEN st.result
  ELSE UpdateScoreSpec_deserialize_from(UpdateScoreSpec_deserialize_step(st))

UpdateScoreSpec_deserialize(data) == UpdateScoreSpec_deserialize_from(DeserializerStart(data))

(***************************************************************************)
(* RemainingBytes: the bytes themselves, up to the end of the input.       *)
(***************************************************************************)
RemainingBytes_serialize(v) == v.data

RemainingBytes_deserializeNonEmpty(data) ==
  IF data = <<>> THEN Err("Eof") ELSE Ok([data |-> data], <<>>)

RemainingBytes_deserialize(data) == Ok([data |-> data], <<>>)

(***************************************************************************)
(* RecipeCraftingShapedSpec (hand-written): width, height, group, the      *)
(* ingredients without a count, the result.                                *)
(***************************************************************************)
RecipeCraftingShapedSpec_serialize(v) ==
  VarInt_serialize(v.width)
    \o VarInt_serialize(v.height)
    \o String_serialize(v.group)
    \o SerializeEach(<<"RecipeIngredient">>, v.ingredients)
    \o Serialize(<<"Option", "Slot">>, v.result)

\* the largest capacity of a Vec<RecipeIngredient>: isize::MAX / 24, an
\* ingredient being one Vec (24 bytes on a 64-bit target)
MaxIngredientCapacity == <<1365, 21845, 21845, 21845>>

ingredients_countWidthOnly(width, height) == usize_mul(SignExtend(width), UsizeOf(1))

\* width.0 as usize * height.0 as usize
ingredients_count(width, height) == usize_mul(SignExtend(width), SignExtend(height))

RecipeCraftingShapedSpec_afterResult(width, height, group, ingredients, result) ==
  IF ~IsOk(result) THEN result
  ELSE Ok([width |-> width, height |-> height, group |-> group,
           ingredients |-> ingredients, result |-> result.value],
          result.data)

RecipeCraftingShapedSpec_afterIngredients(width, height, group, ingredients) ==
  IF ~IsOk(ingredients) THEN ingredients
  ELSE RecipeCraftingShapedSpec_afterResult(
         width, height, group, ingredients.value,
         Deserialize(<<"Option", "Slot">>, ingredients.data))

\* the multiplication panics on overflow when the build checks overflow and
\* wraps otherwise; Vec::with_capacity panics above the largest capacity
\* (memory is taken to suffice below it); then the loop reads the elements
RecipeCraftingShapedSpec_afterCount(overflow_checks, width, height, group, count, data) ==
  IF overflow_checks /\ count.overflow THEN Panic("attempt to multiply with overflow")
  ELSE IF UsizeGreater(count.value, MaxIngredientCapacity) THEN Panic("capacity overflow")
  ELSE RecipeCraftingShapedSpec_afterIngredients(
         width, height, group,
         ReadElements(<<"RecipeIngredient">>, LoopCount(count.value, data), data))

RecipeCraftingShapedSpec_afterGroup(overflow_checks, width, height, group) ==
  IF ~IsOk(group) THEN group
  ELSE RecipeCraftingShapedSpec_afterCount(overflow_checks, width, height, group.value,
                                           ingredients_count(width, height), group.data)

RecipeCraftingShapedSpec_afterHeight(overflow_checks, width, height) ==
  IF ~IsOk(height) THEN height
  ELSE RecipeCraftingShapedSpec_afterGroup(overflow_checks, width, height.value,
                                           String_deserialize(height.data))

RecipeCraftingShapedSpec_afterWidth(overflow_checks, width) ==
  IF ~IsOk(width) THEN width
  ELSE RecipeCraftingShapedSpec_afterHeight(overflow_checks, width.value,
                                            VarInt_deserialize(width.data))

RecipeCraftingShapedSpec_deserialize(overflow_checks, data) ==
  RecipeCraftingShapedSpec_afterWidth(overflow_checks, VarInt_deserialize(data))

(***************************************************************************)
(* BlockChangeHorizontalPosition (hand-written): one byte, rel_x in the    *)
(* high nibble and rel_z in the low one.                                   *)
(***************************************************************************)
BlockChangeHorizontalPosition_serializeUnmasked(v) ==
  u8_serialize(BitOr((v.rel_x * 16) % 256, v.rel_z, 8))

\* (self.rel_x & 0xF) << 4 | (self.rel_z & 0xF)
BlockChangeHorizontalPosition_serialize(v) ==
  u8_serialize(BitOr((BitAnd(v.rel_x, 15, 8) * 16) % 256, BitAnd(v.rel_z, 15, 8), 8))

BlockChangeHorizontalPosition_of(b) ==
  IF ~IsOk(b) THEN b
  ELSE Ok([rel_x |-> BitAnd(b.value \div 16, 15, 8), rel_z |-> BitAnd(b.value, 15, 8)], b.data)

\* rel_x: (b >> 4) & 0xF, rel_z: b & 0xF
BlockChangeHorizontalPosition_deserialize(data) ==
  BlockChangeHorizontalPosition_of(u8_deserialize(data))

(***************************************************************************)
(* MapColumns (hand-written): NoUpdates is the byte 0; Updated is its      *)
(* MapColumnsSpec, whose first field is columns.                           *)
(***************************************************************************)
MapColumns_serialize(v) ==
  IF v.variant = "NoUpdates" THEN u8_serialize(0)
  ELSE Struct_serialize("MapColumnsSpec", v.body)

\* columns is read from data; a non-zero columns has the MapColumnsSpec
\* decoded from data, not from what the read of columns left
MapColumns_deserialize(data) ==
  LET columns == u8_deserialize(data)
  IN IF ~IsOk(columns) THEN columns
     ELSE IF columns.value = 0 THEN Ok([variant |-> "NoUpdates"], columns.data)
     ELSE WithVariant("Updated", Struct_deserialize("MapColumnsSpec", data))

(***************************************************************************)
(* RecipeSpec (hand-written): the type string, the recipe id, the body of  *)
(* the recipe of that type.                                                *)
(***************************************************************************)
RecipeSpec_serialize(v) ==
  String_serialize(Enum_id("Recipe", v.recipe)) \o String_serialize(v.id)
    \o Enum_serialize_body("Recipe", v.recipe)

RecipeSpec_afterBody(recipe_id, recipe) ==
  IF ~IsOk(recipe) THEN recipe
  ELSE Ok([recipe |-> recipe.value, id |-> recipe_id], recipe.data)

RecipeSpec_deserialize(data) ==
  LET type == String_deserialize(data)
  IN IF ~IsOk(type) THEN type
     ELSE LET recipe_id == String_deserialize(type.data)
          IN IF ~IsOk(recipe_id) THEN recipe_id
             ELSE RecipeSpec_afterBody(
                    recipe_id.value,
                    Enum_deserialize_with_id("Recipe", type.value, recipe_id.data))

(***************************************************************************)
(* The reads of the hand-written decoders: the calls a decoder makes to    *)
(* its sub-decoders, in the order it makes them, each with the slice it is *)
(* handed and with its result.  A call names the function called, its      *)
(* arguments and the slice handed to it.                                   *)
(***************************************************************************)
\* T::mc_deserialize(handed)
CallOf(type, handed) == [call |-> "mc_deserialize", type |-> type, handed |-> handed]

\* what the last read left
Left(reads) == reads[Len(reads)].result.data

Value(reads, k) == reads[k].result.value

\* the decoder returns: it calls nothing more
Return == [call |-> "return"]

\* columns is read from data, and so is the MapColumnsSpec
MapColumns_call(reads, data) ==
  CASE Len(reads) = 0 -> CallOf("u8", data)
    [] Len(reads) = 1 /\ Value(reads, 1) # 0 -> CallOf("MapColumnsSpec", data)
    [] OTHER -> Return

UpdateScoreSpec_call(reads, data) ==
  CASE Len(reads) = 0 -> CallOf("u8", data)
    [] Len(reads) = 1 -> CallOf("String", Left(reads))
    [] Len(reads) = 2 ->
         [call |-> "deserialize_with_id", enum |-> "UpdateScoreAction",
          id |-> Value(reads, 1), handed |-> Left(reads)]
    [] OTHER -> Return

GameChangeReason_call(reads, data) ==
  CASE Len(reads) = 0 -> CallOf("u8", data)
    [] Len(reads) = 1 -> CallOf("f32", Left(reads))
    [] Len(reads) = 2 ->
         [call |-> "match reason_id", reason_id |-> Value(reads, 1),
          value |-> Value(reads, 2), handed |-> Left(reads)]
    [] OTHER -> Return

RecipeSpec_call(reads, data) ==
  CASE Len(reads) = 0 -> CallOf("String", data)
    [] Len(reads) = 1 -> CallOf("String", Left(reads))
    [] Len(reads) = 2 ->
         [call |-> "deserialize_with_id", enum |-> "Recipe",
          id |-> Value(reads, 1), handed |-> Left(reads)]
    [] OTHER -> Return

\* the biomes are the sixth read; the block entities follow the count, which
\* is the eighth
ChunkData_call(reads, data) ==
  CASE Len(reads) = 0 -> CallOf("i32", data)
    [] Len(reads) = 1 -> CallOf("i32", Left(reads))
    [] Len(reads) = 2 -> CallOf("bool", Left(reads))
    [] Len(reads) = 3 -> CallOf("VarInt", Left(reads))
    [] Len(reads) = 4 -> CallOf("NamedNbtTag", Left(reads))
    [] Len(reads) = 5 ->
         [call |-> "biomes", is_full_chunk |-> Value(reads, 3), handed |-> Left(reads)]
    [] Len(reads) = 6 -> CallOf("VarIntCountedArray<u8>", Left(reads))
    [] Len(reads) = 7 -> CallOf("VarInt", Left(reads))
    [] Len(reads) >= 8 /\ Value(reads, 8) > Len(reads) - 8 -> CallOf("NamedNbtTag", Left(reads))
    [] OTHER -> Return

LightingUpdateSpec_call(reads, data) ==
  CASE Len(reads) = 0 -> CallOf("VarInt", data)
    [] Len(reads) \in 1..3 -> CallOf("VarInt", Left(reads))
    [] Len(reads) \in 4..5 ->
         [call |-> "LightingData::deserialize", update_mask |-> Value(reads, Len(reads) - 3),
          handed |-> Left(reads)]
    [] OTHER -> Return

\* the index and the field data take turns until the index is 0xFF
EntityMetadata_call(reads, data) ==
  CASE Len(reads) = 0 -> CallOf("u8", data)
    [] Len(reads) % 2 = 1 /\ Value(reads, Len(reads)) # 255 ->
         CallOf("EntityMetadataFieldData", Left(reads))
    [] Len(reads) > 0 /\ Len(reads) % 2 = 0 -> CallOf("u8", Left(reads))
    [] OTHER -> Return

CommandNodeSpec_call(reads, data) ==
  CASE Len(reads) = 0 -> CallOf("u8", data)
    [] Len(reads) = 1 -> CallOf("VarIntCountedArray<VarInt>", Left(reads))
    [] Len(reads) = 2 ->
         [call |-> "redirect_node", present |-> BitAnd(Value(reads, 1), 8, 8) # 0,
          handed |-> Left(reads)]
    [] Len(reads) = 3 ->
         [call |-> "match flags & 0x03", flags |-> Value(reads, 1), handed |-> Left(reads)]
    [] OTHER -> Return

\* the call a decoder makes after the reads it has made
NextCall(decoder, reads, data) ==
  CASE decoder = "CommandNodeSpec" -> CommandNodeSpec_call(reads, data)
    [] decoder = "UpdateScoreSpec" -> UpdateScoreSpec_call(reads, data)
    [] decoder = "GameChangeReason" -> GameChangeReason_call(reads, data)
    [] decoder = "MapColumns" -> MapColumns_call(reads, data)
    [] decoder = "RecipeSpec" -> RecipeSpec_call(reads, data)
    [] decoder = "ChunkData" -> ChunkData_call(reads, data)
    [] decoder = "LightingUpdateSpec" -> LightingUpdateSpec_call(reads, data)
    [] decoder = "EntityMetadata" -> EntityMetadata_call(reads, data)

\* the result of a call
Called(c) ==
  CASE c.call = "mc_deserialize" -> Deserialize(TypeDesc(c.type), c.handed)
    [] c.call = "deserialize_with_id" -> Enum_deserialize_with_id(c.enum, c.id, c.handed)
    [] c.call = "match reason_id" -> GameChangeReason_match(c.reason_id, c.value, c.handed)
    [] c.call = "biomes" -> ChunkData_readBiomes(c.is_full_chunk, c.handed)
    [] c.call = "LightingData::deserialize" -> LightingData_deserialize(c.update_mask, c.handed)
    [] c.call = "redirect_node" -> ReadIf(c.present, <<"VarInt">>, c.handed)
    [] c.call = "match flags & 0x03" -> CommandNodeSpec_matchKind(c.flags, c.handed)

\* the reads of a decoder: a call that fails is its last, the ? returns
RECURSIVE Reads(_, _, _)
ReadsAfter(decoder, reads, data, c, result) ==
  IF ~IsOk(result) THEN Append(reads, [call |-> c, result |-> result])
  ELSE Reads(decoder, Append(reads, [call |-> c, result |-> result]), data)

ReadsCalling(decoder, reads, data, c) ==
  IF c.call = "return" THEN reads ELSE ReadsAfter(decoder, reads, data, c, Called(c))

Reads(decoder, reads, data) ==
  ReadsCalling(decoder, reads, data, NextCall(decoder, reads, data))

(***************************************************************************)
(* The codec of each type.                                                 *)
(***************************************************************************)
Serialize(t, v) ==
  LET c == Head(t)
  IN CASE c = "u8" -> u8_serialize(v)
       [] c = "i8" -> i8_serialize(v)
       [] c = "bool" -> bool_serialize(v)
       [] c = "u16" -> u16_serialize(v)
       [] c = "i16" -> i16_serialize(v)
       [] c = "i32" -> i32_serialize(v)
       [] c = "f32" -> f32_serialize(v)
       [] c = "f64" -> f64_serialize(v)
       [] c = "VarInt" -> VarInt_serialize(v)
       [] c = "String" -> String_serialize(v)
       [] c = "Option" -> Option_serialize(Tail(t), v)
       [] c \in CountedArrayTypes -> CountedArray_serialize(c, Tail(t), v)
       [] c \in EnumNames -> Enum_serialize(c, v)
       [] c \in FlagNames -> Flags_serialize(c, v)
       [] c \in StructNames -> Struct_serialize(c, v)
       [] c = "GameChangeReason" -> GameChangeReason_serialize(v)
       [] c = "NumParserProps" -> NumParserProps_serialize(Tail(t), v)
       [] c = "CommandNodeSpec" -> CommandNodeSpec_serialize(v)
       [] c = "LightingUpdateSpec" -> LightingUpdateSpec_serialize(v)
       [] c = "EntityMetadata" -> EntityMetadata_serialize(v)
       [] c = "RecipeCraftingShapedSpec" -> RecipeCraftingShapedSpec_serialize(v)
       [] c = "TeamMember" -> TeamMember_serialize(v)
       [] c = "RemainingBytes" -> RemainingBytes_serialize(v)
       [] c = "UpdateScoreSpec" -> UpdateScoreSpec_serialize(v)
       [] c = "NamedNbtTag" -> NamedNbtTag_serialize(v)
       [] c = "ChunkData" -> ChunkData_serialize(v)
       [] c = "MapColumns" -> MapColumns_serialize(v)
       [] c = "BlockChangeHorizontalPosition" -> BlockChangeHorizontalPosition_serialize(v)
       [] c = "RecipeSpec" -> RecipeSpec_serialize(v)

Deserialize(t, data) ==
  LET c == Head(t)
  IN CASE c = "u8" -> u8_deserialize(data)
       [] c = "i8" -> i8_deserialize(data)
       [] c = "bool" -> bool_deserialize(data)
       [] c = "u16" -> u16_deserialize(data)
       [] c = "i16" -> i16_deserialize(data)
       [] c = "i32" -> i32_deserialize(data)
       [] c = "f32" -> f32_deserialize(data)
       [] c = "f64" -> f64_deserialize(data)
       [] c = "VarInt" -> VarInt_deserialize(data)
       [] c = "String" -> String_deserialize(data)
       [] c = "Option" -> Option_deserialize(Tail(t), data)
       [] c \in CountedArrayTypes -> CountedArray_deserialize(c, Tail(t), data)
       [] c \in EnumNames -> Enum_deserialize(c, data)
       [] c \in FlagNames -> Flags_deserialize(c, data)
       [] c \in StructNames -> Struct_deserialize(c, data)
       [] c = "GameChangeReason" -> GameChangeReason_deserialize(data)
       [] c = "NumParserProps" -> NumParserProps_deserialize(Tail(t), data)
       [] c = "CommandNodeSpec" -> CommandNodeSpec_deserialize(data)
       [] c = "LightingUpdateSpec" -> LightingUpdateSpec_deserialize(data)
       [] c = "EntityMetadata" -> EntityMetadata_deserialize(data)
       [] c = "RecipeCraftingShapedSpec" -> RecipeCraftingShapedSpec_deserialize(FALSE, data)
       [] c = "TeamMember" -> TeamMember_deserialize(data)
       [] c = "RemainingBytes" -> RemainingBytes_deserialize(data)
       [] c = "UpdateScoreSpec" -> UpdateScoreSpec_deserialize(data)
       [] c = "NamedNbtTag" -> NamedNbtTag_deserialize(data)
       [] c = "ChunkData" -> ChunkData_deserialize(data)
       [] c = "MapColumns" -> MapColumns_deserialize(data)
       [] c = "BlockChangeHorizontalPosition" -> BlockChangeHorizontalPosition_deserialize(data)
       [] c = "RecipeSpec" -> RecipeSpec_deserialize(data)

(***************************************************************************)
(* Counted arrays.                                                         *)
(***************************************************************************)
\* a Vec<u8> of n elements
BytesOfLen(n) == [i \in 1..n |-> i % 256]

\* lengths at which a count of 8, 16 or 32 bits changes sign or wraps
BoundaryLengths ==
  {UsizeOf(n) : n \in {0, 1, 127, 128, 255, 256, 32767, 32768, 65535, 65536, 2147483647}}
    \cup {<<0, 0, 32768, 0>>, <<0, 0, 65535, 65535>>, <<0, 1, 0, 0>>}

\* a counted array of u8 is serialized and the bytes are deserialized again
CountedArrayRoundTrip ==
  /\ op = "init"
  /\ \E a \in CountedArrayTypes, n \in 0..MaxArrayLen :
       LET elems == BytesOfLen(n)
           bytes == Serialize(<<a, "u8">>, elems)
           count == Deserialize(CounterType(a), bytes)
       IN /\ op' = "counted_array"
          /\ arg' = [array |-> a, elems |-> elems]
          /\ res' = [bytes |-> bytes,
                     count |-> count.value,
                     counter |-> ToUsize(a, count.value),
                     decoded |-> Deserialize(<<a, "u8">>, bytes)]

\* the count of a Vec of the given length is converted to the count type
\* and back to the element counter
ConvertCount ==
  /\ op = "init"
  /\ \E a \in CountedArrayTypes, u \in BoundaryLengths :
       /\ op' = "convert_count"
       /\ arg' = [array |-> a, len |-> u]
       /\ res' = [count |-> FromUsize(a, u), counter |-> ToUsize(a, FromUsize(a, u))]

NextArray == CountedArrayRoundTrip \/ ConvertCount

SpecArray == Init /\ [][NextArray]_vars

\* C4: for each counted-array type and every element list, the count field
\* emitted by encode equals the number of elements, converting that count
\* back to an element counter gives the same number, and exactly that many
\* elements are decoded.
C4_CountFidelity ==
  /\ op = "counted_array" =>
       /\ res.count = Len(arg.elems)
       /\ res.counter = UsizeOf(Len(arg.elems))
       /\ res.decoded = Ok(arg.elems, <<>>)
  /\ op = "convert_count" =>
       /\ SignExtend(res.count) = arg.len
       /\ res.counter = arg.len

(***************************************************************************)
(* Tagged unions.                                                          *)
(***************************************************************************)
\* the texts presented to the string enums: every declared text, and each
\* of them cut short, extended and with its first letter changed
DeclaredTexts ==
  UNION {DeclaredIds(e) : e \in {n \in EnumNames : ProtoEnums[n].kind = "str"}}

CandidateTexts ==
  DeclaredTexts
    \cup {SubSeq(s, 1, Len(s) - 1) : s \in DeclaredTexts}
    \cup {Append(s, 115) : s \in DeclaredTexts}
    \cup {[s EXCEPT ![1] = s[1] - 32] : s \in DeclaredTexts}
    \cup {<<>>}

\* the discriminants presented to an enum
CandidateIds(e) ==
  CASE ProtoEnums[e].kind = "byte" -> Byte
    [] ProtoEnums[e].kind = "varint" -> (-1)..MaxDiscriminant \cup {2147483647, -2147483647 - 1}
    [] ProtoEnums[e].kind = "int" -> (-2)..MaxDiscriminant \cup {2147483647, -2147483647 - 1}
    [] ProtoEnums[e].kind = "str" -> CandidateTexts

\* an enum is decoded from a discriminant followed by some payload bytes
DecodeDiscriminant ==
  /\ op = "init"
  /\ \E e \in EnumNames :
       \E id \in CandidateIds(e) :
         LET data == Serialize(DiscriminantType(e), id) \o <<0, 0, 0, 0>>
         IN /\ op' = "enum"
            /\ arg' = [enum |-> e, id |-> id, data |-> data]
            /\ res' = Enum_select(e, data)

\* the floats presented to GameChangeReason: every small integer, and some
\* values that are not the cast of a u8
CandidateFloats ==
  {F32FromU8(n) : n \in 0..MaxDiscriminant}
    \cup {<<63, 192, 0, 0>>,    \* 1.5
          <<191, 128, 0, 0>>,   \* -1.0
          <<67, 128, 0, 0>>,    \* 256.0
          <<127, 192, 0, 0>>,   \* NaN
          <<127, 128, 0, 0>>}   \* +infinity

\* a game-state-change reason is decoded from a reason id and a float
DecodeGameChangeReason ==
  /\ op = "init"
  /\ \E id \in Byte, f \in CandidateFloats :
       LET data == <<id>> \o f \o <<9>>
       IN /\ op' = "game_change_reason"
          /\ arg' = [id |-> id, value |-> f, data |-> data]
          /\ res' = Deserialize(<<"GameChangeReason">>, data)

NextEnum == DecodeDiscriminant \/ DecodeGameChangeReason

SpecEnum == Init /\ [][NextEnum]_vars

\* C5: decoding a discriminant that is not one of the declared values of
\* the tagged union yields a decode error and never a variant, and a
\* declared one selects the variant declared for it: ids 0x00 and 0x0A of
\* BlockEntityDataAction, 0x00 and 0x03 of HandshakeNextState and every
\* reason id above 0x0B of GameChangeReason are errors, and so is, for a
\* reason whose float selects a variant of an enum, a float whose cast to
\* u8 is not declared by that enum.
C5_UnknownDiscriminantIsError ==
  /\ op = "enum" =>
       /\ arg.id \notin DeclaredIds(arg.enum) => res.kind = "err"
       /\ arg.id \in DeclaredIds(arg.enum) =>
            /\ IsOk(res)
            /\ \E k \in DOMAIN ProtoEnums[arg.enum].variants :
                 /\ ProtoEnums[arg.enum].variants[k].id = arg.id
                 /\ ProtoEnums[arg.enum].variants[k].variant = res.value.variant
       /\ (arg.enum = "BlockEntityDataAction" /\ arg.id \in {0, 10}) => res.kind = "err"
       /\ (arg.enum = "HandshakeNextState" /\ arg.id \in {0, 3}) => res.kind = "err"
       /\ (arg.enum = "Dimension" /\ arg.id \notin {-1, 0, 1}) => res.kind = "err"
  /\ op = "game_change_reason" =>
       /\ arg.id > 11 => res.kind = "err"
       /\ arg.id <= 11 =>
            IF arg.id \in {3, 4, 5, 11}
            THEN LET e == GameChangeReasonEnum(GameChangeReasonIds[arg.id + 1])
                 IN /\ F32ToU8(arg.value) \notin DeclaredIds(e) => res.kind = "err"
                    /\ F32ToU8(arg.value) \in DeclaredIds(e) =>
                         /\ IsOk(res)
                         /\ res.value.variant = GameChangeReasonIds[arg.id + 1]
                         /\ Enum_id(e, res.value.body) = F32ToU8(arg.value)
            ELSE IsOk(res) /\ res.value.variant = GameChangeReasonIds[arg.id + 1]

\* an undeclared id inside the declared range of BlockEntityDataAction was
\* rejected, and so was a reason id above the last reason
C5_Witness ==
  \/ /\ op = "enum"
     /\ arg.enum = "BlockEntityDataAction"
     /\ arg.id = 10
     /\ res.kind = "err"
  \/ /\ op = "game_change_reason"
     /\ arg.id = 12
     /\ res.kind = "err"

(***************************************************************************)
(* Values of each type, as the TestRandom implementations draw them: a few *)
(* of every primitive, every variant of an enum, every value of every     *)
(* field of a struct.  The values of a type are listed in a sequence.      *)
(***************************************************************************)
\* F applied to every pair of an element of a and an element of b; every
\* list of values is built as a tuple (\o <<>>), so that it is computed once
Cross(a, b, F(_, _)) ==
  [i \in 1..(Len(a) * Len(b)) |-> F(a[((i - 1) \div Len(b)) + 1], b[((i - 1) % Len(b)) + 1])]
    \o <<>>

\* F applied to the k-th element of a and of b, each taken round again when
\* it is the shorter one: every element of both occurs
Zip(a, b, F(_, _)) ==
  [i \in 1..(IF Len(a) > Len(b) THEN Len(a) ELSE Len(b)) |->
     F(a[((i - 1) % Len(a)) + 1], b[((i - 1) % Len(b)) + 1])] \o <<>>

\* at most n elements of s, evenly spread from the first to the last
Thin(s, n) ==
  IF Len(s) <= n THEN s
  ELSE [k \in 1..n |-> s[1 + ((k - 1) * (Len(s) - 1)) \div (n - 1)]] \o <<>>

\* the empty array and, for each length up to n, the runs of that many
\* consecutive elements of s
SampleArrays(s, n) ==
  <<<<>>>> \o Flatten([k \in 1..n |->
                        [i \in 1..Len(s) |->
                           [j \in 1..k |-> s[((i + j - 2) % Len(s)) + 1]] \o <<>>]])

RECURSIVE SampleValues(_)
\* records over the fields of a struct in which every value of every field occurs
RECURSIVE SampleFields(_)
SampleFields(fields) ==
  IF Len(fields) = 0 THEN <<<<>>>>
  ELSE Zip(SampleValues(TypeDesc(Head(fields)[2])), SampleFields(Tail(fields)),
           LAMBDA v, r : (Head(fields)[1] :> v) @@ r)

\* the values of one variant of an enum
SampleBodies(decl, bodies) ==
  [i \in DOMAIN bodies |-> [variant |-> decl.variant, body |-> bodies[i]]] \o <<>>

SampleVariants(vs) ==
  Flatten([k \in DOMAIN vs |->
             IF vs[k].body = "" THEN <<[variant |-> vs[k].variant]>>
             ELSE SampleBodies(vs[k], SampleValues(TypeDesc(vs[k].body)))])

SampleOption(s) == <<None>> \o [i \in DOMAIN s |-> Some(s[i])]

\* every combination of the flags of a flag set
RECURSIVE SampleFlags(_)
SampleFlags(fs) ==
  IF Len(fs) = 0 THEN <<<<>>>>
  ELSE Cross(<<FALSE, TRUE>>, SampleFlags(Tail(fs)), LAMBDA v, r : (Head(fs).flag :> v) @@ r)

SampleArguments ==
  Cross(Cross(SampleValues(<<"String">>), SampleValues(<<"CommandParserSpec">>),
              LAMBDA n, p : [name |-> n, parser |-> p]),
        SampleOption(SampleValues(<<"SuggestionsTypeSpec">>)),
        LAMBDA a, s : [name |-> a.name, parser |-> a.parser, suggestions_types |-> s])

SampleCommandNodes ==
  <<[variant |-> "Root"]>>
    \o SampleBodies([variant |-> "Literal"], SampleValues(<<"CommandLiteralNodeSpec">>))
    \o SampleBodies([variant |-> "Argument"], SampleArguments)

SampleNodes ==
  Cross(Cross(SampleValues(<<"VarIntCountedArray", "VarInt">>),
              SampleOption(SampleValues(<<"VarInt">>)),
              LAMBDA c, r : [children_indices |-> c, redirect_node |-> r]),
        Cross(<<FALSE, TRUE>>, SampleCommandNodes,
              LAMBDA e, n : [is_executable |-> e, node |-> n]),
        LAMBDA a, b : [children_indices |-> a.children_indices,
                       redirect_node |-> a.redirect_node,
                       is_executable |-> b.is_executable,
                       node |-> b.node])

SampleGameChangeReasons ==
  Flatten([k \in DOMAIN GameChangeReasonIds |->
             IF GameChangeReasonIds[k] \in {"ChangeGameMode", "WinGame", "Demo", "Respawn"}
             THEN SampleBodies([variant |-> GameChangeReasonIds[k]],
                               SampleValues(<<GameChangeReasonEnum(GameChangeReasonIds[k])>>))
             ELSE IF GameChangeReasonIds[k] \in {"RainLevelChange", "ThunderLevelChange"}
             THEN SampleBodies([variant |-> GameChangeReasonIds[k]], SampleValues(<<"f32">>))
             ELSE <<[variant |-> GameChangeReasonIds[k]]>>])

SampleLightingUpdates ==
  <<[skylight_data |-> [i \in 1..LIGHT_DATA_SECTIONS |-> None],
     blocklight_data |-> [i \in 1..LIGHT_DATA_SECTIONS |-> None]],
    [skylight_data |-> [i \in 1..LIGHT_DATA_SECTIONS |->
                          IF i = 4 THEN Some([k \in 1..LIGHT_DATA_LENGTH |-> k % 256]) ELSE None],
     blocklight_data |-> [i \in 1..LIGHT_DATA_SECTIONS |->
                            IF i \in {1, LIGHT_DATA_SECTIONS}
                            THEN Some([k \in 1..LIGHT_DATA_LENGTH |-> (k + i) % 256])
                            ELSE None]]>>

SampleValues(t) ==
  LET c == Head(t)
  IN CASE c = "u8" -> <<0, 255>>
       [] c = "i8" -> <<-128, 127>>
       [] c = "bool" -> <<FALSE, TRUE>>
       [] c = "u16" -> <<0, 25565>>
       [] c = "i16" -> <<-32768, 255>>
       [] c = "i32" -> <<-1, 754>>
       [] c = "f32" -> <<<<0, 0, 0, 0>>, <<63, 192, 0, 0>>>>
       [] c = "f64" -> <<<<0, 0, 0, 0, 0, 0, 0, 0>>, <<191, 240, 0, 0, 0, 0, 0, 1>>>>
       [] c = "VarInt" -> <<0, 300>>
       [] c = "String" -> <<<<>>, <<108, 111, 99, 97, 108, 104, 111, 115, 116>>>>
       [] c = "Option" -> SampleOption(SampleValues(Tail(t)))
       [] c \in CountedArrayTypes ->
            SampleArrays(Thin(SampleValues(Tail(t)), MaxPacketValues), MaxChildren)
       [] c \in EnumNames -> SampleVariants(ProtoEnums[c].variants)
       [] c \in FlagNames -> SampleFlags(ProtoFlags[c].flags)
       [] c \in StructNames -> SampleFields(ProtoStructs[c].fields)
       [] c = "NumParserProps" ->
            Cross(SampleOption(SampleValues(Tail(t))), SampleOption(SampleValues(Tail(t))),
                  LAMBDA lo, hi : [min |-> lo, max |-> hi])
       [] c = "CommandNodeSpec" -> SampleNodes
       [] c = "GameChangeReason" -> SampleGameChangeReasons
       [] c = "LightingUpdateSpec" -> SampleLightingUpdates

(***************************************************************************)
(* Command graph nodes.                                                    *)
(***************************************************************************)
\* a node is serialized and the bytes are deserialized again
CommandNodeRoundTrip ==
  /\ op = "init"
  /\ \E i \in DOMAIN SampleNodes :
       /\ op' = "command_node"
       /\ arg' = SampleNodes[i]
       /\ res' = [bytes |-> Serialize(<<"CommandNodeSpec">>, SampleNodes[i]),
                  decoded |-> Deserialize(<<"CommandNodeSpec">>,
                                          Serialize(<<"CommandNodeSpec">>, SampleNodes[i]))]

\* what follows the flag byte in the bytes presented to the decoder: nothing,
\* an empty child list, and the rest of the encoding of a literal and of an
\* argument with a redirect and a suggestions type
TailNode(m) ==
  /\ Len(m.children_indices) = 1
  /\ m.node.variant # "Root"
  /\ Len(m.node.body.name) > 0
  /\ m.node.variant = "Argument" =>
       /\ m.node.body.parser.variant = "Bool"
       /\ m.node.body.suggestions_types.some
       /\ m.redirect_node.some

NodeTails ==
  {<<>>, <<0>>, <<1, 7, 5>>}
    \cup {Tail(Serialize(<<"CommandNodeSpec">>, SampleNodes[i])) :
            i \in {j \in DOMAIN SampleNodes : TailNode(SampleNodes[j])}}

\* a node is decoded from any flag byte followed by one of the tails
DecodeCommandNode ==
  /\ op = "init"
  /\ \E flags \in Byte, tail \in NodeTails :
       /\ op' = "decode_node"
       /\ arg' = [flags |-> flags, data |-> <<flags>> \o tail]
       /\ res' = Deserialize(<<"CommandNodeSpec">>, <<flags>> \o tail)

NextCommand == CommandNodeRoundTrip \/ DecodeCommandNode

SpecCommand == Init /\ [][NextCommand]_vars

\* C6: decoding a node whose flag byte has kind bits 0-1 equal to 3 returns
\* a decode error, and for every flag byte the decoder returns a node or an
\* error.
C6_KindThreeIsError ==
  op = "decode_node" =>
    /\ arg.flags % 4 = 3 => res.kind = "err"
    /\ res.kind \in {"ok", "err"}

\* C7: the first byte encode writes has the kind in bits 0-1 (root 0,
\* literal 1, argument 2), bit 2 set iff is_executable, bit 3 set iff a
\* redirect is present, bit 4 set iff the node is an argument with a
\* suggestions type, and bits 5-7 clear; a root without children, redirect
\* and executable bit encodes to 0x00 followed by a zero count.
C7_FlagByteLayout ==
  op = "command_node" =>
    /\ res.bytes[1] % 4 = (CASE arg.node.variant = "Root" -> 0
                             [] arg.node.variant = "Literal" -> 1
                             [] arg.node.variant = "Argument" -> 2)
    /\ ((res.bytes[1] \div 4) % 2 = 1) <=> arg.is_executable
    /\ ((res.bytes[1] \div 8) % 2 = 1) <=> arg.redirect_node.some
    /\ ((res.bytes[1] \div 16) % 2 = 1) <=>
         (arg.node.variant = "Argument" /\ arg.node.body.suggestions_types.some)
    /\ res.bytes[1] < 32
    /\ (/\ arg.node.variant = "Root"
        /\ arg.children_indices = <<>>
        /\ ~arg.redirect_node.some
        /\ ~arg.is_executable) => res.bytes = <<0, 0>>

\* an executable argument node with a redirect and a suggestions type was
\* encoded with flag byte 0x1E
C7_Witness ==
  /\ op = "command_node"
  /\ arg.node.variant = "Argument"
  /\ arg.node.body.suggestions_types.some
  /\ arg.redirect_node.some
  /\ arg.is_executable
  /\ res.bytes[1] = 30

\* C8: decode reads the flag byte, the child indices, the redirect index
\* iff bit 3 is set, then the payload of the kind, in the order encode
\* writes them: decoding the encoding of a node gives the node back and
\* leaves no byte.
C8_NodeRoundTrip ==
  op = "command_node" =>
    /\ res.decoded = Ok(arg, <<>>)
    /\ SubSeq(res.bytes, 2, 1 + Len(Serialize(<<"VarIntCountedArray", "VarInt">>,
                                               arg.children_indices)))
         = Serialize(<<"VarIntCountedArray", "VarInt">>, arg.children_indices)

\* an argument node with two children, a redirect, a numeric parser with
\* both bounds and a suggestions type came back unchanged
C8_Witness ==
  /\ op = "command_node"
  /\ Len(arg.children_indices) = 2
  /\ arg.redirect_node.some
  /\ arg.node.variant = "Argument"
  /\ arg.node.body.parser.variant = "Double"
  /\ arg.node.body.parser.body.min.some
  /\ arg.node.body.parser.body.max.some
  /\ arg.node.body.suggestions_types.some
  /\ res.decoded = Ok(arg, <<>>)

(***************************************************************************)
(* Lighting updates.                                                       *)
(***************************************************************************)
\* the content of section i
SectionTable ==
  [i \in 0..LIGHT_DATA_SECTIONS |-> [k \in 1..LIGHT_DATA_LENGTH |-> (k + i) % 256]]

SectionBytes(i) == SectionTable[i]

\* the LightingData whose present sections are those of S
LightingOf(S) ==
  [i \in 1..LIGHT_DATA_SECTIONS |-> IF (i - 1) \in S THEN Some(SectionBytes(i - 1)) ELSE None]

\* the sets of at most MaxLitSections sections
LitSets ==
  {S \in SUBSET (0..(LIGHT_DATA_SECTIONS - 1)) : Cardinality(S) <= MaxLitSections}
    \cup {0..(LIGHT_DATA_SECTIONS - 1)}

\* a lighting update is serialized and the bytes are deserialized again;
\* masks are the four VarInts at the head of the bytes
EncodeLighting ==
  /\ op = "init"
  /\ \E sky \in LitSets, block \in {{}, {LIGHT_DATA_SECTIONS - 1}} :
       LET v == [skylight_data |-> LightingOf(sky), blocklight_data |-> LightingOf(block)]
           bytes == Serialize(<<"LightingUpdateSpec">>, v)
       IN /\ op' = "lighting"
          /\ arg' = v
          /\ res' = [bytes |-> bytes,
                     masks |-> ReadElements(<<"VarInt">>, 4, bytes).value,
                     decoded |-> Deserialize(<<"LightingUpdateSpec">>, bytes)]

\* the lengths declared for a section: the right one, its neighbours, zero,
\* a negative one and one whose low bits are 2048
DeclaredLengths == <<2048, 2047, 2049, 0, -1, 67584>>

\* the sections announced by the masks, each as its declared length
\* followed by LIGHT_DATA_LENGTH bytes
RECURSIVE AnnouncedSections(_)
AnnouncedSections(lengths) ==
  IF Len(lengths) = 0 THEN <<>>
  ELSE VarInt_serialize(Head(lengths)) \o SectionBytes(Len(lengths))
         \o AnnouncedSections(Tail(lengths))

\* the number of bits set among the 18 section bits of a mask
RECURSIVE SectionsIn(_, _)
SectionsIn(mask, i) ==
  IF i = LIGHT_DATA_SECTIONS THEN 0 ELSE Bit(mask, i) + SectionsIn(mask, i + 1)

\* a lighting update is decoded from masks followed by one section per bit
\* of the update masks, with the declared lengths drawn from DeclaredLengths
\* and the last cut bytes of the input missing
DecodeLighting ==
  /\ op = "init"
  /\ \E sky \in {0, 8, 9}, block \in {0, 131072}, cut \in {0, 1, LIGHT_DATA_LENGTH} :
       \E lengths \in [1..(SectionsIn(sky, 0) + SectionsIn(block, 0)) -> 1..Len(DeclaredLengths)] :
         LET declared == [j \in 1..(SectionsIn(sky, 0) + SectionsIn(block, 0)) |->
                            DeclaredLengths[lengths[j]]]
             whole == VarInt_serialize(sky) \o VarInt_serialize(block)
                        \o VarInt_serialize(262143 - sky) \o VarInt_serialize(262143 - block)
                        \o AnnouncedSections(declared)
         IN /\ cut <= Len(whole)
            /\ op' = "decode_lighting"
            /\ arg' = [skylight_update_mask |-> sky, blocklight_update_mask |-> block,
                       lengths |-> declared, cut |-> cut,
                       data |-> SubSeq(whole, 1, Len(whole) - cut)]
            /\ res' = Deserialize(<<"LightingUpdateSpec">>, SubSeq(whole, 1, Len(whole) - cut))

NextLighting == EncodeLighting \/ DecodeLighting

SpecLighting == Init /\ [][NextLighting]_vars

\* C9: decoding a lighting update returns an error, and no lighting data,
\* whenever the length declared for a section that an update mask
\* announces is not 2048, and whenever fewer than 2048 bytes remain for an
\* announced section.
C9_BadSectionLengthIsError ==
  op = "decode_lighting" =>
    /\ (\E j \in DOMAIN arg.lengths : arg.lengths[j] # 2048) => res.kind = "err"
    /\ (arg.cut > 0 /\ Len(arg.lengths) > 0) => res.kind = "err"

\* the second announced section declared 2047 bytes, with all the bytes
\* there, and the decode returned an error
C9_Witness ==
  /\ op = "decode_lighting"
  /\ Len(arg.lengths) >= 2
  /\ arg.lengths[1] = 2048
  /\ arg.lengths[2] = 2047
  /\ arg.cut = 0
  /\ res.kind = "err"

\* C10: for both LightingData of an update, the encoded reset mask is the
\* complement of the encoded update mask on the 18 section bits: no bit is
\* in both, together they are 2^18 - 1, bit i of the update mask is set iff
\* section i holds data, and neither mask has a bit at position 18 or above.
C10_MasksComplement ==
  op = "lighting" =>
    \A l \in 1..2 :
      LET update == res.masks[l]
          reset == res.masks[l + 2]
          data == IF l = 1 THEN arg.skylight_data ELSE arg.blocklight_data
      IN /\ update \in 0..262143
         /\ reset \in 0..262143
         /\ \A i \in 0..17 : ~((update \div Pow2(i)) % 2 = 1 /\ (reset \div Pow2(i)) % 2 = 1)
         /\ update + reset = 262143
         /\ \A i \in 0..17 : ((update \div Pow2(i)) % 2 = 1) <=> data[i + 1].some

\* with only sky-light section 3 present the update mask is 0x08 and the
\* reset mask 0x3FFF7
C10_Witness ==
  /\ op = "lighting"
  /\ \A i \in 1..18 : arg.skylight_data[i].some <=> i = 4
  /\ res.masks[1] = 8
  /\ res.masks[3] = 262135

\* the sections of a LightingData that hold data, and the k-th of them in
\* ascending index
PresentSections(data) == {i \in DOMAIN data : data[i].some}

KthPresent(data, k) ==
  CHOOSE i \in PresentSections(data) :
    Cardinality({x \in PresentSections(data) : x < i}) = k - 1

\* the j-th section on the wire of an update: the sky-light sections in
\* ascending index, then the block-light sections in ascending index
WireSection(v, j) ==
  IF j <= Cardinality(PresentSections(v.skylight_data))
  THEN v.skylight_data[KthPresent(v.skylight_data, j)].value
  ELSE v.blocklight_data[KthPresent(v.blocklight_data,
                                    j - Cardinality(PresentSections(v.skylight_data)))].value

\* C11: after the four masks, encode emits exactly one section per bit set
\* in the two update masks, each as the VarInt 2048 (bytes 0x80 0x10) followed
\* by the 2048 bytes of the section, in ascending section index, all
\* sky-light sections before any block-light section.
C11_SectionsFollowMasks ==
  op = "lighting" =>
    LET rest == ReadElements(<<"VarInt">>, 4, res.bytes).data
        n == SectionsIn(res.masks[1], 0) + SectionsIn(res.masks[2], 0)
    IN /\ Len(rest) = n * (2 + LIGHT_DATA_LENGTH)
       /\ \A j \in 1..n :
            /\ SubSeq(rest, (j - 1) * (2 + LIGHT_DATA_LENGTH) + 1,
                      (j - 1) * (2 + LIGHT_DATA_LENGTH) + 2) = <<128, 16>>
            /\ SubSeq(rest, (j - 1) * (2 + LIGHT_DATA_LENGTH) + 3,
                      j * (2 + LIGHT_DATA_LENGTH)) = WireSection(arg, j)

\* sky-light section 3 and block-light section 17 were both encoded: two
\* sections follow the masks, the sky-light one first
C11_Witness ==
  /\ op = "lighting"
  /\ PresentSections(arg.skylight_data) = {4}
  /\ PresentSections(arg.blocklight_data) = {18}
  /\ res.masks[1] = 8
  /\ Len(ReadElements(<<"VarInt">>, 4, res.bytes).data) = 2 * (2 + LIGHT_DATA_LENGTH)

(***************************************************************************)
(* Packets: the body of a registered packet is the struct of its fields,   *)
(* written and read in declaration order.                                  *)
(***************************************************************************)
Packet_serialize(i, v) == SerializeFields(Registry[i].fields, v)

Packet_deserialize(i, data) == DeserializeFields(Registry[i].fields, data, <<>>)

\* the types whose codec is in this model
RECURSIVE Modelled(_)
ModelledFields(fields) == \A k \in DOMAIN fields : Modelled(TypeDesc(fields[k][2]))

ModelledVariants(vs) == \A k \in DOMAIN vs : vs[k].body = "" \/ Modelled(TypeDesc(vs[k].body))

Modelled(t) ==
  LET c == Head(t)
  IN CASE c \in {"u8", "i8", "bool", "u16", "i16", "i32", "f32", "f64", "VarInt", "String"} -> TRUE
       [] c \in {"Option", "NumParserProps"} \cup CountedArrayTypes -> Modelled(Tail(t))
       [] c \in EnumNames -> ModelledVariants(ProtoEnums[c].variants)
       [] c \in FlagNames -> TRUE
       [] c \in StructNames -> ModelledFields(ProtoStructs[c].fields)
       [] c \in {"GameChangeReason", "CommandNodeSpec", "LightingUpdateSpec"} -> TRUE
       [] OTHER -> FALSE

\* the packets all of whose fields are of those types
ModelledPackets == {i \in DOMAIN Registry : ModelledFields(Registry[i].fields)}

\* the Handshake of the test of the handshake packet
HandshakeLocalhost ==
  [version |-> 754,
   server_address |-> <<108, 111, 99, 97, 108, 104, 111, 115, 116>>,
   server_port |-> 25565,
   next_state |-> [variant |-> "Status"]]

\* the body values of a packet that are serialized
PacketValues(i) ==
  Thin(SampleFields(Registry[i].fields), MaxPacketValues)
    \o (IF Registry[i].name = "Handshake" THEN <<HandshakeLocalhost>> ELSE <<>>)

\* a packet body is serialized and the bytes are deserialized again
PacketRoundTrip ==
  /\ op = "init"
  /\ \E i \in ModelledPackets :
       LET values == PacketValues(i)
       IN \E k \in DOMAIN values :
            LET bytes == Packet_serialize(i, values[k])
            IN /\ op' = "packet"
               /\ arg' = [packet |-> Registry[i].name, body |-> values[k]]
               /\ res' = [bytes |-> bytes, decoded |-> Packet_deserialize(i, bytes)]

\* a trade without items
EmptyTrade(k) ==
  [input_item_1 |-> None, output_item |-> None, input_item_2 |-> None,
   trade_disabled |-> k % 2 = 1, trade_uses |-> k, max_trade_uses |-> 12, xp |-> -1,
   special_price |-> 0, price_multiplier |-> <<63, 192, 0, 0>>, demand |-> 754]

\* a trade list of n trades is serialized and the bytes are deserialized again
TradeListRoundTrip ==
  /\ op = "init"
  /\ \E n \in 0..MaxTrades :
       LET v == [window_id |-> 300, trades |-> [k \in 1..n |-> EmptyTrade(k)],
                 villager_level |-> 0, experience |-> 300,
                 regular_villager |-> TRUE, can_restock |-> FALSE]
           bytes == Packet_serialize(EntryOf("PlayTradeList"), v)
       IN /\ op' = "packet"
          /\ arg' = [packet |-> "PlayTradeList", body |-> v]
          /\ res' = [bytes |-> bytes,
                     decoded |-> Packet_deserialize(EntryOf("PlayTradeList"), bytes)]

NextPacket == PacketRoundTrip \/ TradeListRoundTrip

SpecPacket == Init /\ [][NextPacket]_vars

\* C1: for every registered packet and every body value of it,
\* deserializing the bytes produced by serializing the value yields the
\* value and leaves no byte; this includes the Handshake with version 754,
\* address "localhost", port 25565 and next state Status.
C1_PacketRoundTrip ==
  op = "packet" => res.decoded = Ok(arg.body, <<>>)

(***************************************************************************)
(* Entity metadata.                                                        *)
(***************************************************************************)
\* field data of the variants whose payload has a codec in this model, and
\* two whose encoding holds the byte 0xFF
MetadataFieldData ==
  SampleVariants(SelectSeq(ProtoEnums.EntityMetadataFieldData.variants,
                           LAMBDA d : d.body = "" \/ Modelled(TypeDesc(d.body))))
    \o <<[variant |-> "Byte", body |-> -1], [variant |-> "VarInt", body |-> -1]>>

\* entries of an encoded metadata: none of their indexes is 0xFF
MetadataEntries ==
  Cross(<<0, 254>>, MetadataFieldData, LAMBDA i, d : [index |-> i, data |-> d])

MetadataEntryLists == SampleArrays(MetadataEntries, MaxFields)

\* what follows the terminator in the input: nothing, a byte, and bytes that
\* read as one more entry and one more terminator
MetadataTails == <<<<>>, <<7>>, <<0, 0, 5, 255>>>>

\* metadata is decoded from entries, the terminator and a tail
DecodeMetadata ==
  /\ op = "init"
  /\ \E l \in DOMAIN MetadataEntryLists, t \in DOMAIN MetadataTails :
       LET data == EntityMetadata_serialize([fields |-> MetadataEntryLists[l]])
                     \o MetadataTails[t]
       IN /\ op' = "decode_metadata"
          /\ arg' = [entries |-> MetadataEntryLists[l], terminated |-> TRUE,
                     tail |-> MetadataTails[t], data |-> data]
          /\ res' = Deserialize(<<"EntityMetadata">>, data)

\* metadata is decoded from an input that ends before the terminator: the
\* encoding of the entries with the terminator and cut - 1 more bytes cut
DecodeTruncatedMetadata ==
  /\ op = "init"
  /\ \E l \in DOMAIN MetadataEntryLists, cut \in 1..MaxCut :
       LET whole == EntityMetadata_serialize([fields |-> MetadataEntryLists[l]])
       IN /\ cut <= Len(whole)
          /\ op' = "decode_metadata"
          /\ arg' = [entries |-> MetadataEntryLists[l], terminated |-> FALSE,
                     tail |-> <<>>, data |-> SubSeq(whole, 1, Len(whole) - cut)]
          /\ res' = Deserialize(<<"EntityMetadata">>, SubSeq(whole, 1, Len(whole) - cut))

\* the set calls that build a metadata: indexes at both ends of u8 and a few
\* field data
SetCalls ==
  Cross(<<0, 1, 255>>, Thin(MetadataFieldData, 4), LAMBDA i, d : [index |-> i, data |-> d])

RECURSIVE EntityMetadata_setAll(_, _)
EntityMetadata_setAll(m, calls) ==
  IF Len(calls) = 0 THEN m
  ELSE EntityMetadata_setAll(EntityMetadata_set(m, Head(calls).index, Head(calls).data),
                             Tail(calls))

\* a metadata built from the default by set calls is serialized and the
\* bytes are deserialized again
MetadataRoundTrip ==
  /\ op = "init"
  /\ \E n \in 0..MaxFields :
       \E f \in [1..n -> DOMAIN SetCalls] :
         LET m == EntityMetadata_setAll([fields |-> <<>>], [j \in 1..n |-> SetCalls[f[j]]])
             bytes == Serialize(<<"EntityMetadata">>, m)
         IN /\ op' = "metadata"
            /\ arg' = [calls |-> [j \in 1..n |-> SetCalls[f[j]]], value |-> m]
            /\ res' = [bytes |-> bytes, decoded |-> Deserialize(<<"EntityMetadata">>, bytes)]

NextMetadata == DecodeMetadata \/ DecodeTruncatedMetadata \/ MetadataRoundTrip

SpecMetadata == Init /\ [][NextMetadata]_vars

\* C12: decode reads entries up to the first index byte 0xFF, consumes that
\* byte and nothing after it: the entries before it are the fields and the
\* bytes after it are the remainder, unchanged; an input that ends before a
\* 0xFF index byte fails with Eof.
C12_StopsAtTerminator ==
  op = "decode_metadata" =>
    IF arg.terminated
    THEN res = Ok([fields |-> arg.entries], arg.tail)
    ELSE res = Err("Eof")

\* two entries, whose data hold the byte 0xFF, were read and the tail that
\* looks like one more entry was left as the remainder
C12_Witness ==
  /\ op = "decode_metadata"
  /\ arg.terminated
  /\ Len(arg.entries) = 2
  /\ \E k \in 1..2 : arg.entries[k].data.variant = "Byte" /\ arg.entries[k].data.body = -1
  /\ arg.tail = <<0, 0, 5, 255>>
  /\ IsOk(res)
  /\ res.data = <<0, 0, 5, 255>>

\* C13: every metadata obtained from the default by set calls with any
\* index byte decodes from its own encoding to itself with no byte left.
C13_MetadataRoundTrip ==
  op = "metadata" => res.decoded = Ok(arg.value, <<>>)

(***************************************************************************)
(* Shaped-crafting recipes.  A recipe with public fields is serialized;    *)
(* bytes made of a width, a height, a group, some ingredient encodings, a  *)
(* result and a tail are deserialized, in a build with and in one without  *)
(* overflow checks.  The ingredients hold no present Slot.                 *)
(***************************************************************************)
MaxIngredients == 4

MaxDim == 2

\* widths and heights: the small ones, a negative one (its product with a
\* nonzero one overflows usize), and one whose square exceeds any input
ShapedDims == [i \in 1..(MaxDim + 1) |-> i - 1] \o <<-1, 65536>>

ShapedGroups == <<<<>>, <<97, 98>>>>

\* ingredient encodings: two well-formed ones and one whose count is an
\* over-long VarInt
ShapedElements ==
  <<[bytes |-> <<0>>, ok |-> TRUE, value |-> [items |-> <<>>]],
    [bytes |-> <<2, 0, 0>>, ok |-> TRUE, value |-> [items |-> <<None, None>>]],
    [bytes |-> <<128, 128, 128, 128, 128, 1>>, ok |-> FALSE, value |-> [items |-> <<>>]]>>

GoodElements == SelectSeq(ShapedElements, LAMBDA e : e.ok)

ElementBytes(es) == Flatten([k \in DOMAIN es |-> es[k].bytes])

ElementValues(es) == [k \in DOMAIN es |-> es[k].value]

EncodeShaped ==
  /\ op = "init"
  /\ \E width \in 0..MaxDim, height \in 0..MaxDim, g \in DOMAIN ShapedGroups,
        n \in 0..MaxIngredients :
       \E f \in [1..n -> DOMAIN GoodElements] :
         LET v == [width |-> width, height |-> height, group |-> ShapedGroups[g],
                   ingredients |-> [k \in 1..n |-> GoodElements[f[k]].value],
                   result |-> None]
         IN /\ op' = "encode_shaped"
            /\ arg' = v
            /\ res' = Serialize(<<"RecipeCraftingShapedSpec">>, v)

DecodeShaped ==
  /\ op = "init"
  /\ \E overflow_checks \in BOOLEAN, w \in DOMAIN ShapedDims, h \in DOMAIN ShapedDims,
        n \in 0..MaxIngredients :
       \E f \in [1..n -> DOMAIN ShapedElements] :
         LET es == [k \in 1..n |-> ShapedElements[f[k]]]
             data == VarInt_serialize(ShapedDims[w]) \o VarInt_serialize(ShapedDims[h])
                       \o String_serialize(ShapedGroups[(n % 2) + 1])
                       \o ElementBytes(es) \o <<0, 7>>
         IN /\ op' = "decode_shaped"
            /\ arg' = [overflow_checks |-> overflow_checks,
                       width |-> ShapedDims[w], height |-> ShapedDims[h],
                       group |-> ShapedGroups[(n % 2) + 1], elements |-> es, data |-> data]
            /\ res' = RecipeCraftingShapedSpec_deserialize(overflow_checks, data)

NextRecipe == EncodeShaped \/ DecodeShaped

SpecRecipe == Init /\ [][NextRecipe]_vars

ShapedHeader(v) ==
  VarInt_serialize(v.width) \o VarInt_serialize(v.height) \o String_serialize(v.group)

\* the bytes of an encoded recipe after its width, height and group
AfterShapedHeader(v, bytes) == SubSeq(bytes, Len(ShapedHeader(v)) + 1, Len(bytes))

\* C14: the encoding of every shaped recipe is its width, height and group,
\* then exactly width x height ingredient elements (the recipe's own), then
\* its result.
C14_IngredientCountIsProduct ==
  op = "encode_shaped" =>
    /\ SubSeq(res, 1, Len(ShapedHeader(arg))) = ShapedHeader(arg)
    /\ ReadElements(<<"RecipeIngredient">>, arg.width * arg.height, AfterShapedHeader(arg, res))
         = Ok(arg.ingredients, Serialize(<<"Option", "Slot">>, arg.result))

\* the first k elements are well-formed
AllGood(es, k) == \A j \in 1..k : j <= Len(es) => es[j].ok

\* the position of the first malformed element
FirstBad(es) == CHOOSE j \in DOMAIN es : ~es[j].ok /\ AllGood(es, j - 1)

\* C15: decoding reads width, height and group, then exactly width x height
\* ingredient elements, then the result: a success carries the width, the
\* height, the group, the first width x height elements of the input as its
\* ingredients, and the result read after them, and leaves what follows; an
\* error in one of the width x height elements is the outcome of the decode.
C15_DecodeReadsProduct ==
  op = "decode_shaped" =>
    /\ IsOk(res) =>
         /\ Len(res.value.ingredients) = arg.width * arg.height
         /\ res.value.width = arg.width /\ res.value.height = arg.height
         /\ res.value.group = arg.group
         /\ Len(res.value.ingredients) <= Len(arg.elements)
         /\ res.value.ingredients
              = ElementValues(SubSeq(arg.elements, 1, Len(res.value.ingredients)))
         /\ Option_serialize(<<"Slot">>, res.value.result) \o res.data
              = ElementBytes(SubSeq(arg.elements, Len(res.value.ingredients) + 1,
                                    Len(arg.elements))) \o <<0, 7>>
    /\ (/\ arg.width \in 0..MaxDim /\ arg.height \in 0..MaxDim
        /\ ~AllGood(arg.elements, arg.width * arg.height))
         => res = Err("VarNumTooLong")
    /\ (/\ arg.width \in 0..MaxDim /\ arg.height \in 0..MaxDim
        /\ arg.width * arg.height = Len(arg.elements)
        /\ AllGood(arg.elements, Len(arg.elements)))
         => res = Ok([width |-> arg.width, height |-> arg.height, group |-> arg.group,
                      ingredients |-> ElementValues(arg.elements), result |-> None],
                     <<7>>)

\* a 2 x 2 recipe decoded from four well-formed elements
C15_Witness ==
  /\ op = "decode_shaped"
  /\ arg.width = 2 /\ arg.height = 2
  /\ IsOk(res) /\ Len(res.value.ingredients) = 4
  /\ res.value.ingredients[2] = [items |-> <<None, None>>]
  /\ res.data = <<7>>

(***************************************************************************)
(* Team members.  Strings that are identifier texts, strings that differ   *)
(* from one in a single character or in length, and plain names are        *)
(* decoded; players and entities are serialized and deserialized again.    *)
(***************************************************************************)
MaxTail == 1

TeamIds ==
  <<[k \in 1..16 |-> 0],
    [k \in 1..16 |-> (k * 67 + 1) % 256],
    [k \in 1..16 |-> 255]>>

UpperCase(text) == [i \in DOMAIN text |-> IF text[i] \in 97..122 THEN text[i] - 32 ELSE text[i]]

LowerCase(text) == [i \in DOMAIN text |-> IF text[i] \in 65..90 THEN text[i] + 32 ELSE text[i]]

\* "g", "-", "0" and "F"
Replacements == <<103, 45, 48, 70>>

\* the texts that differ from text in one character
OneCharOff(text) ==
  Cross([p \in 1..Len(text) |-> p], Replacements,
        LAMBDA p, r : [text EXCEPT ![p] = r])

\* "", "Steve", "a-b", and 36 characters that are no identifier
PlayerNames ==
  <<<<>>, <<83, 116, 101, 118, 101>>, <<97, 45, 98>>, [i \in 1..36 |-> 120]>>

TeamTexts ==
  PlayerNames
    \o Flatten([k \in DOMAIN TeamIds |->
                  <<UUID4_to_string(TeamIds[k]), UpperCase(UUID4_to_string(TeamIds[k])),
                    UUID4_to_string(TeamIds[k]) \o <<48>>,
                    SubSeq(UUID4_to_string(TeamIds[k]), 1, 35),
                    <<32>> \o UUID4_to_string(TeamIds[k])>>
                    \o OneCharOff(UUID4_to_string(TeamIds[k]))])

DecodeTeamMember ==
  /\ op = "init"
  /\ \E t \in DOMAIN TeamTexts, n \in 0..MaxTail :
       /\ op' = "decode_team_member"
       /\ arg' = [text |-> TeamTexts[t], tail |-> [i \in 1..n |-> 36]]
       /\ res' = Deserialize(<<"TeamMember">>,
                             String_serialize(TeamTexts[t]) \o [i \in 1..n |-> 36])

TeamMembers ==
  [t \in DOMAIN TeamTexts |-> [variant |-> "Player", body |-> TeamTexts[t]]]
    \o [k \in DOMAIN TeamIds |-> [variant |-> "Entity", body |-> TeamIds[k]]]

TeamMemberRoundTrip ==
  /\ op = "init"
  /\ \E m \in DOMAIN TeamMembers :
       /\ op' = "team_member"
       /\ arg' = TeamMembers[m]
       /\ res' = [bytes |-> Serialize(<<"TeamMember">>, TeamMembers[m]),
                  decoded |-> Deserialize(<<"TeamMember">>,
                                          Serialize(<<"TeamMember">>, TeamMembers[m]))]

NextTeam == DecodeTeamMember \/ TeamMemberRoundTrip

SpecTeam == Init /\ [][NextTeam]_vars

HexDigits == (48..57) \cup (97..102) \cup (65..70)

\* the text is 8-4-4-4-12 hex digits joined by dashes
IsIdentifierText(text) ==
  /\ Len(text) = 36
  /\ \A i \in 1..36 : IF i \in {9, 14, 19, 24} THEN text[i] = 45 ELSE text[i] \in HexDigits

\* C16: a team member is one string and nothing else: the encoding is one
\* string; decoding a string followed by a tail succeeds and leaves the
\* tail, with Entity(id), id being the identifier the text denotes, exactly
\* when the string is an identifier text, and with Player(string) otherwise.
C16_ContentDisambiguates ==
  /\ op = "decode_team_member" =>
       /\ IsOk(res) /\ res.data = arg.tail
       /\ res.value.variant = (IF IsIdentifierText(arg.text) THEN "Entity" ELSE "Player")
       /\ res.value.variant = "Player" => res.value.body = arg.text
       /\ res.value.variant = "Entity" =>
            /\ Len(res.value.body) = 16
            /\ UUID4_to_string(res.value.body) = LowerCase(arg.text)
  /\ op = "team_member" =>
       /\ IsOk(String_deserialize(res.bytes))
       /\ String_deserialize(res.bytes).data = <<>>
       /\ arg.variant = "Player" => String_deserialize(res.bytes).value = arg.body
       /\ arg.variant = "Entity" => IsIdentifierText(String_deserialize(res.bytes).value)

\* an identifier text in capitals decoded to the entity, the tail left
C16_Witness ==
  /\ op = "decode_team_member"
  /\ arg.text = UpperCase(UUID4_to_string(TeamIds[2]))
  /\ arg.text # UUID4_to_string(TeamIds[2])
  /\ arg.tail = <<36>>
  /\ res = Ok([variant |-> "Entity", body |-> TeamIds[2]], <<36>>)

\* C17: every team member, a player of any name or an entity of any
\* identifier, is decoded from its encoding to itself with nothing left.
C17_TeamMemberRoundTrip ==
  op = "team_member" => res.decoded = Ok(arg, <<>>)

(***************************************************************************)
(* Chunk columns.  Columns with and without biomes are serialized; bytes   *)
(* made of the parts of a column, with the full-column byte and the biome  *)
(* ids chosen independently of each other, are deserialized.               *)
(***************************************************************************)
MaxBlockEntities == 3

ChunkCoordinates == <<0, -2>>

ChunkBiomes ==
  <<None, Some([i \in 1..BIOMES_LENGTH |-> 0]), Some([i \in 1..BIOMES_LENGTH |-> i - 513])>>

ChunkBuffers == <<<<>>, <<1, 255>>>>

ChunkEntityLists == SampleArrays(NbtBlobs, MaxBlockEntities)

\* the columns: every biome choice with every list of block entities, the
\* other fields varying along
ChunkColumns ==
  Cross(ChunkBiomes, [k \in DOMAIN ChunkEntityLists |-> k],
        LAMBDA b, k : [chunk_x |-> ChunkCoordinates[(k % 2) + 1],
                       chunk_z |-> ChunkCoordinates[((k \div 2) % 2) + 1],
                       primary_bit_mask |-> 300 * (k % 3),
                       heightmaps |-> NbtBlobs[(k % Len(NbtBlobs)) + 1],
                       biomes |-> b,
                       data |-> ChunkBuffers[((k \div 3) % 2) + 1],
                       block_entities |-> ChunkEntityLists[k]])

EncodeChunk ==
  /\ op = "init"
  /\ \E c \in DOMAIN ChunkColumns :
       /\ op' = "encode_chunk"
       /\ arg' = ChunkColumns[c]
       /\ res' = Serialize(<<"ChunkData">>, ChunkColumns[c])

\* the bytes of a column whose full-column byte is written from flag
ChunkBytes(v, flag, tail) ==
  i32_serialize(v.chunk_x) \o i32_serialize(v.chunk_z) \o bool_serialize(flag)
    \o VarInt_serialize(v.primary_bit_mask) \o v.heightmaps
    \o (IF v.biomes.some THEN SerializeEach(<<"i32">>, v.biomes.value) ELSE <<>>)
    \o Serialize(<<"VarIntCountedArray", "u8">>, v.data)
    \o VarInt_serialize(Len(v.block_entities))
    \o Flatten(v.block_entities) \o tail

DecodeChunk ==
  /\ op = "init"
  /\ \E c \in DOMAIN ChunkColumns, flag \in BOOLEAN, n \in 0..MaxTail :
       /\ op' = "decode_chunk"
       /\ arg' = [column |-> ChunkColumns[c], flag |-> flag, tail |-> [i \in 1..n |-> 9]]
       /\ res' = Deserialize(<<"ChunkData">>,
                             ChunkBytes(ChunkColumns[c], flag, [i \in 1..n |-> 9]))

NextChunk == EncodeChunk \/ DecodeChunk

SpecChunk == Init /\ [][NextChunk]_vars

\* the values read from data run by run, a run being a number of elements
\* of one type
RECURSIVE ReadRuns(_, _)
ReadRuns(runs, data) ==
  IF Len(runs) = 0 THEN Ok(<<>>, data)
  ELSE LET r == ReadElements(Head(runs).type, Head(runs).n, data)
       IN IF ~IsOk(r) THEN r
          ELSE LET rest == ReadRuns(Tail(runs), r.data)
               IN IF ~IsOk(rest) THEN rest ELSE Ok(r.value \o rest.value, rest.data)

\* the layout the claim gives for a column
ChunkLayout(v) ==
  <<[type |-> <<"i32">>, n |-> 2],
    [type |-> <<"bool">>, n |-> 1],
    [type |-> <<"VarInt">>, n |-> 1],
    [type |-> <<"NamedNbtTag">>, n |-> 1],
    [type |-> <<"i32">>, n |-> IF v.biomes.some THEN 1024 ELSE 0],
    [type |-> <<"VarIntCountedArray", "u8">>, n |-> 1],
    [type |-> <<"VarInt">>, n |-> 1],
    [type |-> <<"NamedNbtTag">>, n |-> Len(v.block_entities)]>>

ChunkParts(v) ==
  <<v.chunk_x, v.chunk_z, v.biomes.some, v.primary_bit_mask, v.heightmaps>>
    \o (IF v.biomes.some THEN v.biomes.value ELSE <<>>)
    \o <<v.data, Len(v.block_entities)>> \o v.block_entities

\* C18: the encoding of a column is x, z, the boolean, the bit-mask, the
\* height maps, 1024 four-byte biome ids iff the boolean is true, the
\* counted buffer, the block-entity count and that many tags, and nothing
\* more; the boolean is true iff the column has biomes.  A decode that
\* succeeds has biomes iff the boolean read is true, and bytes laid out so
\* decode to the column they were made of.
C18_ChunkLayout ==
  /\ op = "encode_chunk" => ReadRuns(ChunkLayout(arg), res) = Ok(ChunkParts(arg), <<>>)
  /\ op = "decode_chunk" =>
       /\ IsOk(res) => (res.value.biomes.some <=> arg.flag)
       /\ (arg.flag <=> arg.column.biomes.some) => res = Ok(arg.column, arg.tail)

\* a full column with distinct biome ids and two block entities
C18_Witness ==
  /\ op = "encode_chunk"
  /\ arg.biomes.some /\ arg.biomes.value[1] = -512 /\ arg.biomes.value[1024] = 511
  /\ Len(arg.block_entities) = 2
  /\ res[9] = 1
  /\ Len(res) > 4 * 1024

(***************************************************************************)
(* Game-state-change reasons.  Every reason is serialized; a reason id     *)
(* followed by a float, whole or cut short, is deserialized.               *)
(***************************************************************************)
EncodeGameChangeReason ==
  /\ op = "init"
  /\ \E k \in DOMAIN SampleGameChangeReasons :
       /\ op' = "encode_reason"
       /\ arg' = SampleGameChangeReasons[k]
       /\ res' = Serialize(<<"GameChangeReason">>, SampleGameChangeReasons[k])

DecodeTruncatedGameChangeReason ==
  /\ op = "init"
  /\ \E id \in Byte, f \in CandidateFloats, n \in 0..3 :
       /\ op' = "truncated_reason"
       /\ arg' = [id |-> id, data |-> <<id>> \o SubSeq(f, 1, n)]
       /\ res' = Deserialize(<<"GameChangeReason">>, <<id>> \o SubSeq(f, 1, n))

NextReason ==
  EncodeGameChangeReason \/ DecodeGameChangeReason \/ DecodeTruncatedGameChangeReason

SpecReason == Init /\ [][NextReason]_vars

\* the six reasons without a payload, by reason id
PayloadLess ==
  (0 :> "NoRespawnAvailable") @@ (1 :> "EndRaining") @@ (2 :> "BeginRaining")
    @@ (6 :> "ArrowHitPlayer") @@ (9 :> "PufferfishSting")
    @@ (10 :> "ElderGuardianMobAppearance")

\* C19: an encoded reason is the reason-id byte and four bytes of float,
\* the float being 0.0 for a reason without a payload; an id of such a
\* reason decodes to the reason whatever the float; every successful decode
\* has consumed the id and the float and nothing else, and a float cut
\* short is an unexpected end of input whatever the id.
C19_FloatAlwaysPresent ==
  /\ op = "encode_reason" =>
       /\ Len(res) = 5
       /\ res[1] \in 0..11
       /\ GameChangeReasonIds[res[1] + 1] = arg.variant
       /\ (\E id \in DOMAIN PayloadLess : PayloadLess[id] = arg.variant)
            => /\ PayloadLess[res[1]] = arg.variant
               /\ SubSeq(res, 2, 5) = <<0, 0, 0, 0>>
  /\ op = "game_change_reason" =>
       /\ arg.id \in DOMAIN PayloadLess => res = Ok([variant |-> PayloadLess[arg.id]], <<9>>)
       /\ IsOk(res) => res.data = <<9>>
  /\ op = "truncated_reason" => res = Err("Eof")

\* the id of ArrowHitPlayer followed by a NaN
C19_Witness ==
  /\ op = "game_change_reason"
  /\ arg.id = 6
  /\ arg.value = <<127, 192, 0, 0>>
  /\ res = Ok([variant |-> "ArrowHitPlayer"], <<9>>)

(***************************************************************************)
(* Score updates.  The serializer and the deserializer run statement by    *)
(* statement: res is the state of the one that runs, with the parts        *)
(* written or read so far.                                                 *)
(***************************************************************************)
ScoreNames == <<<<>>, <<97, 98>>>>

ScoreActions ==
  <<[variant |-> "Upsert", body |-> 0], [variant |-> "Upsert", body |-> 300],
    [variant |-> "Upsert", body |-> -1], [variant |-> "Remove"]>>

ScoreUpdates ==
  Cross(ScoreNames, ScoreActions, LAMBDA n, a : [objective_name |-> n, action |-> a])

BeginSerializeScore ==
  /\ op = "init"
  /\ \E k \in DOMAIN ScoreUpdates :
       /\ op' = "serialize_score"
       /\ arg' = ScoreUpdates[k]
       /\ res' = SerializerStart

SerializeScoreStatement ==
  /\ op = "serialize_score"
  /\ res.pc < Len(UpdateScoreSpec_statements)
  /\ res' = UpdateScoreSpec_serialize_step(arg, res)
  /\ UNCHANGED <<op, arg>>

\* what follows the name on the wire: nothing, a score, a score and one
\* more byte, an over-long VarInt
ScorePayloads == <<<<>>, <<5>>, <<172, 2, 9>>, <<128, 128, 128, 128, 128, 1>>>>

\* the inputs: an action id, a name, a payload, cut short by up to MaxCut bytes
BeginDeserializeScore ==
  /\ op = "init"
  /\ \E id \in {0, 1, 2, 255}, n \in DOMAIN ScoreNames, p \in DOMAIN ScorePayloads,
        cut \in 0..MaxCut :
       LET whole == <<id>> \o String_serialize(ScoreNames[n]) \o ScorePayloads[p]
       IN /\ cut < Len(whole)
          /\ op' = "deserialize_score"
          /\ arg' = SubSeq(whole, 1, Len(whole) - cut)
          /\ res' = DeserializerStart(SubSeq(whole, 1, Len(whole) - cut))

DeserializeScoreStatement ==
  /\ op = "deserialize_score"
  /\ ~res.done
  /\ res' = UpdateScoreSpec_deserialize_step(res)
  /\ UNCHANGED <<op, arg>>

NextScore ==
  \/ BeginSerializeScore
  \/ SerializeScoreStatement
  \/ BeginDeserializeScore
  \/ DeserializeScoreStatement

SpecScore == Init /\ [][NextScore]_vars

ScoreParts == <<"action_id", "objective_name", "body">>

\* the bytes of the k-th part of a score update
ScorePartBytes(v, k) ==
  CASE k = 1 -> <<IF v.action.variant = "Upsert" THEN 0 ELSE 1>>
    [] k = 2 -> String_serialize(v.objective_name)
    [] k = 3 -> IF v.action.variant = "Upsert" THEN VarInt_serialize(v.action.body) ELSE <<>>

\* the next part can be read from what is left
ScorePartReadable(st) ==
  CASE Len(st.reads) = 0 -> st.rest # <<>>
    [] Len(st.reads) = 1 -> IsOk(String_deserialize(st.rest))
    [] Len(st.reads) = 2 ->
         \/ st.action_id = 0 /\ IsOk(VarInt_deserialize(st.rest))
         \/ st.action_id = 1

\* the update made of the name read and of the payload of the action with
\* the given id, read from data: a VarInt for Upsert, nothing for Remove
ScorePayloadRead(id, name, data) ==
  IF id = 0
  THEN Ok([objective_name |-> name,
           action |-> [variant |-> "Upsert", body |-> VarInt_deserialize(data).value]],
          VarInt_deserialize(data).data)
  ELSE Ok([objective_name |-> name, action |-> [variant |-> "Remove"]], data)

\* a step of the serializer writes the next part in the order action id,
\* name, payload, after the bytes already written
ScoreWriteInOrder ==
  (op = "serialize_score" /\ op' = "serialize_score") =>
     /\ Len(res.writes) < 3
     /\ res'.writes = Append(res.writes, ScoreParts[Len(res.writes) + 1])
     /\ res'.sink = res.sink \o ScorePartBytes(arg, Len(res.writes) + 1)

\* a step of the deserializer reads the next part in the same order from
\* the front of what is left, or ends the decode with an error
ScoreReadInOrder ==
  (op = "deserialize_score" /\ op' = "deserialize_score") =>
     \/ /\ ~ScorePartReadable(res)
        /\ res'.done /\ ~IsOk(res'.result)
        /\ res'.reads = res.reads /\ res'.rest = res.rest
     \/ /\ Len(res.reads) < 3
        /\ ScorePartReadable(res)
        /\ res'.reads = Append(res.reads, ScoreParts[Len(res.reads) + 1])
        /\ CASE Len(res.reads) = 0 ->
                  /\ res.rest = <<res'.action_id>> \o res'.rest
                  /\ ~res'.done
             [] Len(res.reads) = 1 ->
                  /\ res.rest = String_serialize(res'.objective_name) \o res'.rest
                  /\ res'.action_id = res.action_id
                  /\ ~res'.done
             [] Len(res.reads) = 2 ->
                  /\ res'.done
                  /\ res'.result = ScorePayloadRead(res.action_id, res.objective_name, res.rest)
                  /\ res'.rest = res'.result.data

\* C20: the serializer starts with an empty sink and every statement of it
\* writes the next of action id, objective name, payload (a VarInt for
\* Upsert, nothing for Remove); the deserializer reads the three parts in
\* that order; no step writes or reads in another order.
C20_FixedOrder ==
  [][/\ (op' = "serialize_score" /\ op = "init") => (res'.writes = <<>> /\ res'.sink = <<>>)
     /\ (op' = "deserialize_score" /\ op = "init") => (res'.reads = <<>> /\ res'.rest = arg')
     /\ ScoreWriteInOrder
     /\ ScoreReadInOrder]_vars

\* Upsert(300) of objective "ab" wholly written
C20_Witness ==
  /\ op = "serialize_score"
  /\ arg = [objective_name |-> <<97, 98>>, action |-> [variant |-> "Upsert", body |-> 300]]
  /\ res.writes = <<"action_id", "objective_name", "body">>
  /\ res.sink = <<0, 2, 97, 98, 172, 2>>

(***************************************************************************)
(* Numeric-bounds parser properties.  Properties over each of the three    *)
(* element types, with every combination of a present and an absent bound, *)
(* are serialized and deserialized again; every flag byte followed by two  *)
(* elements and a tail is deserialized.                                    *)
(***************************************************************************)
NumElementTypes == <<"i32", "f32", "f64">>

\* two values of each element type
NumElements(t) ==
  CASE t = "i32" -> <<-1, 754>>
    [] t = "f32" -> <<<<63, 192, 0, 0>>, <<127, 192, 0, 0>>>>
    [] t = "f64" -> <<<<63, 248, 0, 0, 0, 0, 0, 0>>, <<128, 0, 0, 0, 0, 0, 0, 1>>>>

NumBounds(t) == SampleOption(NumElements(t))

NumPropsRoundTrip ==
  /\ op = "init"
  /\ \E t \in DOMAIN NumElementTypes :
       \E i \in DOMAIN NumBounds(NumElementTypes[t]), j \in DOMAIN NumBounds(NumElementTypes[t]) :
         LET v == [min |-> NumBounds(NumElementTypes[t])[i],
                   max |-> NumBounds(NumElementTypes[t])[j]]
             bytes == Serialize(<<"NumParserProps", NumElementTypes[t]>>, v)
         IN /\ op' = "num_props"
            /\ arg' = [type |-> NumElementTypes[t], value |-> v]
            /\ res' = [bytes |-> bytes,
                       decoded |-> Deserialize(<<"NumParserProps", NumElementTypes[t]>>, bytes)]

DecodeNumProps ==
  /\ op = "init"
  /\ \E flags \in Byte, t \in DOMAIN NumElementTypes, n \in 0..MaxTail :
       \E i \in DOMAIN NumElements(NumElementTypes[t]) :
         LET first == NumElements(NumElementTypes[t])[i]
             second == NumElements(NumElementTypes[t])[3 - i]
             data == <<flags>> \o Serialize(<<NumElementTypes[t]>>, first)
                       \o Serialize(<<NumElementTypes[t]>>, second) \o [k \in 1..n |-> 7]
         IN /\ op' = "decode_num_props"
            /\ arg' = [type |-> NumElementTypes[t], flags |-> flags, first |-> first,
                       second |-> second, tail |-> [k \in 1..n |-> 7], data |-> data]
            /\ res' = Deserialize(<<"NumParserProps", NumElementTypes[t]>>, data)

NextNumProps == NumPropsRoundTrip \/ DecodeNumProps

SpecNumProps == Init /\ [][NextNumProps]_vars

\* the elements a flag byte announces, read from two elements on the wire
AnnouncedBounds(flags, first, second) ==
  IF flags % 2 = 1
  THEN [min |-> Some(first),
        max |-> IF (flags \div 2) % 2 = 1 THEN Some(second) ELSE None]
  ELSE [min |-> None,
        max |-> IF (flags \div 2) % 2 = 1 THEN Some(first) ELSE None]

\* the bytes of the two elements and the tail that the flag byte leaves unread
UnreadAfterBounds(a) ==
  (IF a.flags % 2 = 1 /\ (a.flags \div 2) % 2 = 1 THEN <<>>
   ELSE IF a.flags % 2 = 1 \/ (a.flags \div 2) % 2 = 1 THEN Serialize(<<a.type>>, a.second)
   ELSE Serialize(<<a.type>>, a.first) \o Serialize(<<a.type>>, a.second))
    \o a.tail

\* C21: the encoding is one byte, 1 if min is present plus 2 if max is
\* present, then min if present, then max if present, and it decodes to the
\* properties with nothing left; decoding reads min iff bit 0 of the flag
\* byte is set and max iff bit 1 is set, whatever the other bits.
C21_PresenceFlags ==
  /\ op = "num_props" =>
       /\ res.bytes = <<(IF arg.value.min.some THEN 1 ELSE 0)
                          + (IF arg.value.max.some THEN 2 ELSE 0)>>
                        \o (IF arg.value.min.some
                            THEN Serialize(<<arg.type>>, arg.value.min.value) ELSE <<>>)
                        \o (IF arg.value.max.some
                            THEN Serialize(<<arg.type>>, arg.value.max.value) ELSE <<>>)
       /\ res.decoded = Ok(arg.value, <<>>)
  /\ op = "decode_num_props" =>
       res = Ok(AnnouncedBounds(arg.flags, arg.first, arg.second), UnreadAfterBounds(arg))

\* a flag byte with bit 1 and every undeclared bit set: only max is read
C21_Witness ==
  /\ op = "decode_num_props"
  /\ arg.flags = 254
  /\ arg.type = "f64"
  /\ IsOk(res)
  /\ ~res.value.min.some
  /\ res.value.max = Some(arg.first)
  /\ Len(res.data) = 8 + Len(arg.tail)

(***************************************************************************)
(* Bit-flag sets.  Every value of every flag set is serialized; every byte *)
(* is deserialized as every flag set.                                      *)
(***************************************************************************)
FlagSetNames == DOMAIN ProtoFlags

EncodeFlags ==
  /\ op = "init"
  /\ \E f \in FlagSetNames :
       \E k \in DOMAIN SampleFlags(ProtoFlags[f].flags) :
         /\ op' = "encode_flags"
         /\ arg' = [set |-> f, value |-> SampleFlags(ProtoFlags[f].flags)[k]]
         /\ res' = Serialize(<<f>>, SampleFlags(ProtoFlags[f].flags)[k])

DecodeFlags ==
  /\ op = "init"
  /\ \E f \in FlagSetNames, b \in Byte, n \in 0..MaxTail :
       /\ op' = "decode_flags"
       /\ arg' = [set |-> f, byte |-> b, tail |-> [k \in 1..n |-> 3]]
       /\ res' = Deserialize(<<f>>, <<b>> \o [k \in 1..n |-> 3])

NextFlags == EncodeFlags \/ DecodeFlags

SpecFlags == Init /\ [][NextFlags]_vars

SingleBits == {1, 2, 4, 8, 16, 32, 64, 128}

\* the sum of the bits of the flags of fs that are set in v
RECURSIVE SumOfSetBits(_, _)
SumOfSetBits(fs, v) ==
  IF Len(fs) = 0 THEN 0
  ELSE (IF v[Head(fs).flag] THEN Head(fs).bit ELSE 0) + SumOfSetBits(Tail(fs), v)

\* the byte with the bits that fs does not declare cleared
RECURSIVE DeclaredBitsOf(_, _)
DeclaredBitsOf(fs, b) ==
  IF Len(fs) = 0 THEN 0
  ELSE (IF (b \div Head(fs).bit) % 2 = 1 THEN Head(fs).bit ELSE 0)
         + DeclaredBitsOf(Tail(fs), b)

\* C22: in every flag set each flag has one bit of its own; the encoding
\* of a value is the byte with exactly the bits of its set flags; decoding
\* any byte succeeds, tells of each flag whether its bit is set, and gives
\* what the byte with the undeclared bits cleared gives.
C22_FlagBits ==
  /\ \A f \in FlagSetNames :
       \A i, j \in DOMAIN ProtoFlags[f].flags :
         /\ ProtoFlags[f].flags[i].bit \in SingleBits
         /\ i # j => /\ ProtoFlags[f].flags[i].bit # ProtoFlags[f].flags[j].bit
                     /\ ProtoFlags[f].flags[i].flag # ProtoFlags[f].flags[j].flag
  /\ op = "encode_flags" =>
       res = <<SumOfSetBits(ProtoFlags[arg.set].flags, arg.value)>>
  /\ op = "decode_flags" =>
       /\ IsOk(res) /\ res.data = arg.tail
       /\ \A k \in DOMAIN ProtoFlags[arg.set].flags :
            res.value[ProtoFlags[arg.set].flags[k].flag]
              = ((arg.byte \div ProtoFlags[arg.set].flags[k].bit) % 2 = 1)
       /\ res.value
            = Deserialize(<<arg.set>>,
                          <<DeclaredBitsOf(ProtoFlags[arg.set].flags, arg.byte)>>).value

\* BossBarFlags from a byte with dragon_bar and all five undeclared bits set
C22_Witness ==
  /\ op = "decode_flags"
  /\ arg.set = "BossBarFlags"
  /\ arg.byte = 250
  /\ IsOk(res)
  /\ res.value = [darken_sky |-> FALSE, dragon_bar |-> TRUE, create_fog |-> FALSE]

(***************************************************************************)
(* Remaining bytes.  Every slice of up to MaxRemaining bytes is            *)
(* deserialized, and serialized as the data of a value.                    *)
(***************************************************************************)
MaxRemaining == 3

RemainingAlphabet == {0, 1, 128, 255}

DecodeRemainingBytes ==
  /\ op = "init"
  /\ \E n \in 0..MaxRemaining :
       \E f \in [1..n -> RemainingAlphabet] :
         /\ op' = "decode_remaining"
         /\ arg' = f
         /\ res' = Deserialize(<<"RemainingBytes">>, f)

EncodeRemainingBytes ==
  /\ op = "init"
  /\ \E n \in 0..MaxRemaining :
       \E f \in [1..n -> RemainingAlphabet] :
         /\ op' = "encode_remaining"
         /\ arg' = [data |-> f]
         /\ res' = Serialize(<<"RemainingBytes">>, [data |-> f])

NextRemaining == DecodeRemainingBytes \/ EncodeRemainingBytes

SpecRemaining == Init /\ [][NextRemaining]_vars

\* C23: decoding any slice, the empty one included, succeeds with all the
\* bytes of the slice as data and nothing left; the encoding of a value is
\* its data bytes and nothing before them.
C23_RemainingBytes ==
  /\ op = "decode_remaining" =>
       /\ IsOk(res)
       /\ res.value.data = arg
       /\ res.data = <<>>
  /\ op = "encode_remaining" =>
       /\ Len(res) = Len(arg.data)
       /\ \A i \in 1..Len(res) : res[i] = arg.data[i]

\* the empty slice decoded
C23_Witness ==
  /\ op = "decode_remaining"
  /\ Len(arg) = 0
  /\ res = Ok([data |-> <<>>], <<>>)

(***************************************************************************)
(* Message bodies that end in remaining bytes.  The leading fields of such *)
(* a body followed by any slice are deserialized as the body.              *)
(***************************************************************************)
BodyFieldsRemainingFirst(i) ==
  SelectSeq(Registry[i].fields, LAMBDA fd : fd[2] = "RemainingBytes")
    \o SelectSeq(Registry[i].fields, LAMBDA fd : fd[2] # "RemainingBytes")

\* the fields of the body of the i-th registry entry, in declaration order
BodyFields(i) == Registry[i].fields

\* the entries whose body has a RemainingBytes field
RemainingBodies ==
  {i \in DOMAIN Registry : \E k \in DOMAIN BodyFields(i) : BodyFields(i)[k][2] = "RemainingBytes"}

\* the fields of a body other than its RemainingBytes fields
LeadingFields(i) == SelectSeq(Registry[i].fields, LAMBDA fd : fd[2] # "RemainingBytes")

LeadingValues(i) == Thin(SampleFields(LeadingFields(i)), 2)

DecodeBodyTail ==
  /\ op = "init"
  /\ \E i \in RemainingBodies, n \in 0..MaxRemaining :
       \E k \in DOMAIN LeadingValues(i), f \in [1..n -> RemainingAlphabet] :
         /\ op' = "decode_body"
         /\ arg' = [packet |-> Registry[i].name, leading |-> LeadingValues(i)[k], tail |-> f]
         /\ res' = DeserializeFields(BodyFields(i),
                                     SerializeFields(LeadingFields(i), LeadingValues(i)[k]) \o f,
                                     <<>>)

NextBody == DecodeBodyTail

SpecBody == Init /\ [][NextBody]_vars

\* the name of the last field of the body of a packet
LastFieldOf(m) == Registry[EntryOf(m)].fields[Len(Registry[EntryOf(m)].fields)][1]

\* C24: the bodies with a RemainingBytes field are those of the six
\* packets; in every body a RemainingBytes field is the last field, so no
\* body has two; such a body decodes with everything after its leading
\* fields as the data of that field and nothing left.
C24_RemainingBytesLast ==
  /\ {Registry[i].name : i \in RemainingBodies}
       = {"LoginPluginRequest", "LoginPluginResponse", "PlayServerPluginMessage",
          "PlayParticle", "PlayUnlockRecipes", "PlayClientPluginMessage"}
  /\ \A i \in DOMAIN Registry :
       \A k \in DOMAIN BodyFields(i) :
         BodyFields(i)[k][2] = "RemainingBytes" => k = Len(BodyFields(i))
  /\ op = "decode_body" =>
       res = Ok(arg.leading @@ (LastFieldOf(arg.packet) :> [data |-> arg.tail]), <<>>)

\* a particle body followed by three bytes
C24_Witness ==
  /\ op = "decode_body"
  /\ arg.packet = "PlayParticle"
  /\ Len(arg.tail) = 3
  /\ IsOk(res)
  /\ res.value.data = [data |-> arg.tail]
  /\ res.data = <<>>

(***************************************************************************)
(* The reads of the hand-written decoders.  Each decoder is run on         *)
(* encodings of its values and on bytes no value encodes to, whole and cut *)
(* short by up to MaxCut bytes; res holds the result and, for each read,   *)
(* where in the input it starts and where it ends.                         *)
(***************************************************************************)
ArmorDye ==
  <<109, 105, 110, 101, 99, 114, 97, 102, 116, 58, 99, 114, 97, 102, 116, 105, 110, 103, 95,
    115, 112, 101, 99, 105, 97, 108, 95, 97, 114, 109, 111, 114, 100, 121, 101>>

\* the encodings of values, each with the decoder they are for
EncodingsOf(decoder, values) ==
  [k \in DOMAIN values |-> [decoder |-> decoder, data |-> Serialize(<<decoder>>, values[k])]]
    \o <<>>

InputsOf(decoder, inputs) ==
  [k \in DOMAIN inputs |-> [decoder |-> decoder, data |-> inputs[k]]] \o <<>>

CompositeInputs ==
  EncodingsOf("CommandNodeSpec", Thin(SampleNodes, 6))
    \o InputsOf("CommandNodeSpec", <<<<3, 0>>>>)
    \o EncodingsOf("UpdateScoreSpec", ScoreUpdates)
    \o EncodingsOf("GameChangeReason", Thin(SampleGameChangeReasons, 6))
    \o InputsOf("GameChangeReason", <<<<12, 0, 0, 0, 0>>>>)
    \o InputsOf("MapColumns",
                <<<<0>>, <<0, 7>>, <<1, 2, 3, 4, 0>>, <<5, 2, 3, 4, 2, 8, 9>>,
                  <<0, 2, 3, 4, 0>>>>)
    \o InputsOf("RecipeSpec",
                <<String_serialize(ArmorDye) \o String_serialize(<<97, 98>>),
                  String_serialize(ProtoEnums.Recipe.variants[2].id)
                    \o String_serialize(<<>>) \o <<1, 1, 0, 0, 0>>,
                  String_serialize(<<120>>) \o String_serialize(<<97>>) \o <<1, 2>>>>)
    \o EncodingsOf("ChunkData", Thin(ChunkColumns, 3))
    \o EncodingsOf("LightingUpdateSpec", SampleLightingUpdates)
    \o EncodingsOf("EntityMetadata",
                   [k \in DOMAIN Thin(MetadataEntryLists, 5) |->
                      [fields |-> Thin(MetadataEntryLists, 5)[k]]])

\* where each read starts and ends in the input, counted in bytes from the
\* start of the input; a read that failed ends where it starts
ReadSpans(reads, data) ==
  [k \in DOMAIN reads |->
     [call |-> reads[k].call.call,
      ok |-> IsOk(reads[k].result),
      from |-> Len(data) - Len(reads[k].call.handed),
      to |-> IF IsOk(reads[k].result) THEN Len(data) - Len(reads[k].result.data)
             ELSE Len(data) - Len(reads[k].call.handed)]] \o <<>>

DecodeCompositeOf(decoder, data) ==
  /\ op' = "decode_composite"
  /\ arg' = [decoder |-> decoder, data |-> data]
  /\ res' = [result |-> Deserialize(<<decoder>>, data),
             reads |-> ReadSpans(Reads(decoder, <<>>, data), data)]

DecodeCompositeCut(input, cut) ==
  /\ cut <= Len(input.data)
  /\ DecodeCompositeOf(input.decoder, SubSeq(input.data, 1, Len(input.data) - cut))

RangeOf(s) == {s[k] : k \in DOMAIN s}

DecodeComposite ==
  /\ op = "init"
  /\ \E input \in RangeOf(CompositeInputs), cut \in 0..MaxCut :
       DecodeCompositeCut(input, cut)

NextReads == DecodeComposite

SpecReads == Init /\ [][NextReads]_vars

\* the reads follow each other: the first starts at the start of the input
\* and every other one starts where the one before it ended
ReadsInOrder(reads) ==
  /\ reads[1].from = 0
  /\ \A k \in 2..Len(reads) : reads[k - 1].ok /\ reads[k].from = reads[k - 1].to

\* the reads are those of the decoder: a decode that succeeds leaves what
\* its last read left
ReadsAreOf(result, reads, data) ==
  IsOk(result) =>
    /\ reads[Len(reads)].ok
    /\ reads[Len(reads)].to = Len(data) - Len(result.data)

\* C25: every hand-written composite decoder hands each sub-decoder the
\* remainder left by the read before it: no read starts before the end of
\* an earlier read of the same decoder.
C25_NoByteReadTwice ==
  op = "decode_composite" => ReadsInOrder(res.reads)

\* the decoders other than MapColumns read in order
OtherDecodersReadInOrder ==
  (op = "decode_composite" /\ arg.decoder # "MapColumns") =>
    /\ ReadsInOrder(res.reads)
    /\ ReadsAreOf(res.result, res.reads, arg.data)

\* the reads of MapColumns are those its result comes from
MapColumnsReadsAreItsOwn ==
  (op = "decode_composite" /\ arg.decoder = "MapColumns") =>
    ReadsAreOf(res.result, res.reads, arg.data)

(***************************************************************************)
(* Malformed inputs.  A chunk column whose block-entity count is negative, *)
(* a shaped recipe whose width or height is negative, and encodings of     *)
(* both cut short, are deserialized.                                       *)
(***************************************************************************)
NegativeCounts == <<-1, -2, -2147483647>>

MalformedDims == <<0, 1, 2, -1, -2147483647>>

MalformedColumns == Thin(ChunkColumns, 4)

\* the bytes of a column up to its block-entity count, then count and the
\* bytes of the column's block entities
ChunkBytesWithCount(v, count) ==
  LET head == ChunkBytes([v EXCEPT !.block_entities = <<>>], v.biomes.some, <<>>)
  IN SubSeq(head, 1, Len(head) - 1) \o VarInt_serialize(count) \o Flatten(v.block_entities)

DecodeMalformedOf(decoder, malformed, data) ==
  /\ op' = "decode_malformed"
  /\ arg' = [decoder |-> decoder, malformed |-> malformed, data |-> data]
  /\ res' = Deserialize(<<decoder>>, data)

DecodeNegativeCount ==
  /\ op = "init"
  /\ \E c \in DOMAIN MalformedColumns, n \in DOMAIN NegativeCounts :
       DecodeMalformedOf("ChunkData", "count",
                         ChunkBytesWithCount(MalformedColumns[c], NegativeCounts[n]))

DecodeNegativeDims ==
  /\ op = "init"
  /\ \E w \in DOMAIN MalformedDims, h \in DOMAIN MalformedDims, g \in DOMAIN ShapedGroups,
        n \in 0..MaxIngredients :
       /\ MalformedDims[w] < 0 \/ MalformedDims[h] < 0
       /\ DecodeMalformedOf("RecipeCraftingShapedSpec", "dims",
                            VarInt_serialize(MalformedDims[w])
                              \o VarInt_serialize(MalformedDims[h])
                              \o String_serialize(ShapedGroups[g])
                              \o [k \in 1..n |-> 0] \o <<0>>)

\* encodings cut short: no column and no recipe is encoded to a proper
\* prefix of the encoding of another
TruncatedOf(decoder, whole, cut) ==
  /\ cut <= Len(whole)
  /\ DecodeMalformedOf(decoder, "truncated", SubSeq(whole, 1, Len(whole) - cut))

DecodeTruncated ==
  /\ op = "init"
  /\ \E cut \in 1..MaxCut :
       \/ \E c \in DOMAIN MalformedColumns :
            TruncatedOf("ChunkData", Serialize(<<"ChunkData">>, MalformedColumns[c]), cut)
       \/ \E w \in 0..MaxDim, h \in 0..MaxDim, g \in DOMAIN ShapedGroups :
            TruncatedOf("RecipeCraftingShapedSpec",
                        VarInt_serialize(w) \o VarInt_serialize(h)
                          \o String_serialize(ShapedGroups[g])
                          \o [k \in 1..(w * h) |-> 0] \o <<0>>,
                        cut)

NextMalformed == DecodeNegativeCount \/ DecodeNegativeDims \/ DecodeTruncated

SpecMalformed == Init /\ [][NextMalformed]_vars

\* C26: every decode of a malformed input returns an error value: a
\* negative block-entity count in a chunk column, a negative width or height
\* in a shaped recipe, an input that ends early.
C26_MalformedIsError ==
  op = "decode_malformed" => res.kind = "err"

\* an input that ends early is an error
TruncatedIsError ==
  (op = "decode_malformed" /\ arg.malformed = "truncated") => res.kind = "err"

\* a negative count is never an error value
NegativeCountIsNoError ==
  (op = "decode_malformed" /\ arg.malformed = "count") => res = Panic("capacity overflow")

(***************************************************************************)
(* VarInt.  Values at the ends of each encoded length and the small ones   *)
(* are serialized; each legal encoding of a value, the shortest one and    *)
(* the ones made longer with empty groups, is deserialized.                *)
(***************************************************************************)
MaxSmallVarInt == 40

VarIntValues ==
  {0, 1, 127, 128, 255, 300, 16383, 16384, 25565, 2097151, 2097152, 268435455, 268435456,
   2147483647, -1, -128, -129, -32768, -2147483647, -2147483647 - 1}
    \cup (-MaxSmallVarInt..MaxSmallVarInt)

\* 128^k
RECURSIVE Pow128(_)
Pow128(k) == IF k = 0 THEN 1 ELSE 128 * Pow128(k - 1)

\* bits 7(k-1) .. 7k-1 of the unsigned bit pattern of v, for k in 1..5; the
\* pattern of a negative v is 2^31 + (v + 2^31)
VarIntGroup(v, k) ==
  LET low == IF v < 0 THEN (v + 2147483647) + 1 ELSE v
  IN IF k < 5 THEN (low \div Pow128(k - 1)) % 128
     ELSE (low \div Pow128(4)) + (IF v < 0 THEN 8 ELSE 0)

\* the number of groups up to the last one that is not empty, at least one
VarIntLength(v) ==
  IF \A k \in 1..5 : VarIntGroup(v, k) = 0 THEN 1
  ELSE CHOOSE n \in 1..5 : /\ VarIntGroup(v, n) # 0
                           /\ \A k \in (n + 1)..5 : VarIntGroup(v, k) = 0

\* the legal encoding of v in n bytes
VarIntEncoding(v, n) ==
  [k \in 1..n |-> VarIntGroup(v, k) + (IF k < n THEN 128 ELSE 0)]

EncodeVarInt ==
  /\ op = "init"
  /\ \E v \in VarIntValues :
       /\ op' = "encode_varint"
       /\ arg' = v
       /\ res' = Serialize(<<"VarInt">>, v)

DecodeVarInt ==
  /\ op = "init"
  /\ \E v \in VarIntValues, n \in 1..VARINT_MAX_BYTES :
       /\ n >= VarIntLength(v)
       /\ op' = "decode_varint"
       /\ arg' = [v |-> v, data |-> VarIntEncoding(v, n)]
       /\ res' = Deserialize(<<"VarInt">>, VarIntEncoding(v, n))

NextVarInt == EncodeVarInt \/ DecodeVarInt

SpecVarInt == Init /\ [][NextVarInt]_vars

\* C27: the encoding of a value is the shortest legal encoding of its
\* unsigned bit pattern: 1 to 5 bytes, the 7-bit groups of the pattern from
\* the least significant one, the continuation bit on all bytes but the last,
\* and no empty last group after the first byte; 0 is 00, 25565 is DD C7 01
\* and -1 is FF FF FF FF 0F.  Every legal encoding of a value, the shortest
\* and the longer ones, is decoded to the value with nothing left.
C27_VarIntShortest ==
  /\ op = "encode_varint" =>
       /\ Len(res) \in 1..5
       /\ \A k \in 1..Len(res) :
            res[k] = VarIntGroup(arg, k) + (IF k < Len(res) THEN 128 ELSE 0)
       /\ \A k \in (Len(res) + 1)..5 : VarIntGroup(arg, k) = 0
       /\ Len(res) = 1 \/ res[Len(res)] # 0
       /\ arg = 0 => res = <<0>>
       /\ arg = 25565 => res = <<221, 199, 1>>
       /\ arg = -1 => res = <<255, 255, 255, 255, 15>>
  /\ op = "decode_varint" => res = Ok(arg.v, <<>>)

\* 25565 decoded from its three bytes made five with two empty groups
C27_Witness ==
  /\ op = "decode_varint"
  /\ arg = [v |-> 25565, data |-> <<221, 199, 129, 128, 0>>]
  /\ res = Ok(25565, <<>>)

(***************************************************************************)
(* Map columns.  NoUpdates and updates of every sampled columns, rows, x,  *)
(* z and data are serialized and the bytes are deserialized again.         *)
(***************************************************************************)
MapColumnCounts == <<0, 1, 128, 255>>

MapColumnData == <<<<>>, <<0>>, <<7, 255>>, <<0, 0, 0>>>>

MapColumnsValues ==
  <<[variant |-> "NoUpdates"]>>
    \o Cross(Cross(MapColumnCounts, SampleValues(<<"u8">>),
                   LAMBDA c, r : [columns |-> c, rows |-> r]),
             Cross(Cross(SampleValues(<<"u8">>), SampleValues(<<"u8">>),
                         LAMBDA x, z : [x |-> x, z |-> z]),
                   MapColumnData, LAMBDA p, d : [x |-> p.x, z |-> p.z, data |-> d]),
             LAMBDA a, b : [variant |-> "Updated",
                            body |-> [columns |-> a.columns, rows |-> a.rows,
                                      x |-> b.x, z |-> b.z, data |-> b.data]])

MapColumnsRoundTripOf(v, encoded) ==
  /\ op' = "map_columns"
  /\ arg' = v
  /\ res' = [encoded |-> encoded, decoded |-> Deserialize(<<"MapColumns">>, encoded)]

MapColumnsRoundTrip ==
  /\ op = "init"
  /\ \E v \in RangeOf(MapColumnsValues) :
       MapColumnsRoundTripOf(v, Serialize(<<"MapColumns">>, v))

NextMapColumns == MapColumnsRoundTrip

SpecMapColumns == Init /\ [][NextMapColumns]_vars

\* C28: every MapColumns value, NoUpdates or Updated with any columns, rows,
\* x, z and data, is decoded from its encoding to itself with nothing left;
\* NoUpdates is encoded as the single byte 0.
C28_MapColumnsRoundTrip ==
  op = "map_columns" =>
    /\ res.decoded = Ok(arg, <<>>)
    /\ arg.variant = "NoUpdates" => res.encoded = <<0>>

\* the values other than the updates of no column
MapColumnsRoundTripWithColumns ==
  (op = "map_columns" /\ (arg.variant = "Updated" => arg.body.columns # 0)) =>
    /\ res.decoded = Ok(arg, <<>>)
    /\ arg.variant = "NoUpdates" => res.encoded = <<0>>

(***************************************************************************)
(* Entity metadata as a map.  A metadata starts as the default, without    *)
(* fields, and is changed by up to MaxSets calls of set; a reference map   *)
(* from index to data is changed with it.  res holds the metadata, the     *)
(* metadata before the last call and the map; arg holds the calls made.    *)
(***************************************************************************)
MaxSets == 3

MapIndexes == {0, 1, 255}

\* indexes no call sets
UnsetIndexes == {7}

MapData ==
  {[variant |-> "Byte", body |-> -1], [variant |-> "Byte", body |-> 5],
   [variant |-> "VarInt", body |-> 5]}

DefaultMetadata ==
  /\ op = "init"
  /\ op' = "metadata_map"
  /\ arg' = <<>>
  /\ res' = [metadata |-> [fields |-> <<>>], before |-> [fields |-> <<>>],
             map |-> [i \in MapIndexes \cup UnsetIndexes |-> None]]

SetMetadata ==
  /\ op = "metadata_map"
  /\ Len(arg) < MaxSets
  /\ \E index \in MapIndexes, data \in MapData :
       /\ arg' = Append(arg, [index |-> index, data |-> data])
       /\ res' = [metadata |-> EntityMetadata_set(res.metadata, index, data),
                  before |-> res.metadata,
                  map |-> [res.map EXCEPT ![index] = Some(data)]]
  /\ UNCHANGED op

NextMap == DefaultMetadata \/ SetMetadata

SpecMap == Init /\ [][NextMap]_vars

\* the indexes of the fields, in the order of the fields
IndexesOf(m) == [k \in DOMAIN m.fields |-> m.fields[k].index]

\* the data of the last call made on an index
MostRecent(calls, index) ==
  IF \A k \in DOMAIN calls : calls[k].index # index THEN None
  ELSE Some(calls[CHOOSE k \in DOMAIN calls :
                    /\ calls[k].index = index
                    /\ \A j \in (k + 1)..Len(calls) : calls[j].index # index].data)

\* the last call was a set on an index that was present, or on a new one
LastSetKept(before, after, call) ==
  IF \E k \in DOMAIN before.fields : before.fields[k].index = call.index
  THEN IndexesOf(after) = IndexesOf(before)
  ELSE after.fields = Append(before.fields, call)

\* C29: after any sequence of set calls from the default metadata, get
\* returns for every index what the reference map holds, the data of the
\* most recent set on the index and nothing for an index never set; no two
\* fields hold the same index; a set on a present index leaves the number
\* and the order of the fields unchanged and a set on a new index appends
\* one field at the end.
C29_MetadataIsMap ==
  op = "metadata_map" =>
    /\ \A i \in DOMAIN res.map :
         /\ EntityMetadata_get(res.metadata, i) = res.map[i]
         /\ res.map[i] = MostRecent(arg, i)
    /\ \A j, k \in DOMAIN res.metadata.fields :
         res.metadata.fields[j].index = res.metadata.fields[k].index => j = k
    /\ Len(arg) > 0 => LastSetKept(res.before, res.metadata, arg[Len(arg)])

\* index 0 set, index 255 set, index 0 set again with other data: two
\* fields, the first with the data of the third call
C29_Witness ==
  /\ op = "metadata_map"
  /\ Len(arg) = 3
  /\ arg[1].index = 0 /\ arg[2].index = 255 /\ arg[3].index = 0
  /\ arg[1].data # arg[3].data
  /\ IndexesOf(res.metadata) = <<0, 255>>
  /\ EntityMetadata_get(res.metadata, 0) = Some(arg[3].data)
  /\ \A i \in UnsetIndexes : EntityMetadata_get(res.metadata, i) = None

(***************************************************************************)
(* Horizontal positions of block changes.  Every byte is deserialized and  *)
(* its position serialized again; positions with fields on both sides of   *)
(* 16 are serialized and the byte is deserialized again.                   *)
(***************************************************************************)
PositionFields == (0..17) \cup {31, 32, 127, 128, 240, 255}

DecodePosition ==
  /\ op = "init"
  /\ \E b \in Byte, tail \in {<<>>, <<9>>} :
       LET decoded == Deserialize(<<"BlockChangeHorizontalPosition">>, <<b>> \o tail)
       IN /\ op' = "decode_position"
          /\ arg' = [byte |-> b, tail |-> tail]
          /\ res' = [decoded |-> decoded,
                     encoded |-> IF IsOk(decoded)
                                 THEN Serialize(<<"BlockChangeHorizontalPosition">>,
                                                decoded.value)
                                 ELSE <<>>]

EncodePosition ==
  /\ op = "init"
  /\ \E rel_x \in PositionFields, rel_z \in PositionFields :
       LET encoded == Serialize(<<"BlockChangeHorizontalPosition">>,
                                [rel_x |-> rel_x, rel_z |-> rel_z])
       IN /\ op' = "encode_position"
          /\ arg' = [rel_x |-> rel_x, rel_z |-> rel_z]
          /\ res' = [encoded |-> encoded,
                     decoded |-> Deserialize(<<"BlockChangeHorizontalPosition">>, encoded)]

NextPosition == DecodePosition \/ EncodePosition

SpecPosition == Init /\ [][NextPosition]_vars

\* C30: a position is one byte, rel_x in the high nibble and rel_z in the
\* low one.  Every byte decodes to fields in 0..15, which encode to the byte
\* again.  A position encodes to the byte of its fields' low four bits, so
\* it decodes to itself exactly when both fields are below 16, and the high
\* bits of a field never reach the other nibble.
C30_PositionNibbles ==
  /\ op = "decode_position" =>
       /\ IsOk(res.decoded)
       /\ res.decoded.value.rel_x = arg.byte \div 16
       /\ res.decoded.value.rel_z = arg.byte % 16
       /\ res.decoded.value.rel_x \in 0..15 /\ res.decoded.value.rel_z \in 0..15
       /\ res.decoded.data = arg.tail
       /\ res.encoded = <<arg.byte>>
  /\ op = "encode_position" =>
       /\ res.encoded = <<16 * (arg.rel_x % 16) + (arg.rel_z % 16)>>
       /\ res.decoded = Ok([rel_x |-> arg.rel_x % 16, rel_z |-> arg.rel_z % 16], <<>>)
       /\ (res.decoded = Ok(arg, <<>>)) <=> (arg.rel_x < 16 /\ arg.rel_z < 16)

\* a position whose rel_z has a bit above the nibble: the bit is dropped and
\* rel_x is as it was
C30_Witness ==
  /\ op = "encode_position"
  /\ arg = [rel_x |-> 3, rel_z |-> 17]
  /\ res = [encoded |-> <<49>>, decoded |-> Ok([rel_x |-> 3, rel_z |-> 1], <<>>)]
====
